---- MODULE Spec2Model ----
(***************************************************************************)
(* EndfieldPuzzler: the placement solver (core/solver.ts) and its shape    *)
(* utilities, as a state machine.                                          *)
(*                                                                         *)
(* Spec        the backtracking search of solvePuzzle, one step of the     *)
(*             recursion per action, over a bounded family of PuzzleData.  *)
(* FairSpec    Spec with weak fairness on the steps of solvePuzzle, which  *)
(*             is synchronous code and so runs on once it is called.       *)
(*                                                                         *)
(* SpecShapes  the pure shape functions (generateRotations,                *)
(*             normalizeShape, getUniqueRotations) applied to every        *)
(*             rectangular boolean grid up to MaxShapeDim x MaxShapeDim.   *)
(*                                                                         *)
(* SpecMap     MapParser.parse (core/mapParser.ts): size estimation and    *)
(*             the two phases of buildCellMap, one detection per action.   *)
(*                                                                         *)
(* SpecCluster ConstraintParser.clusterByX (core/constraintParser.ts)      *)
(*             applied to every list of up to MaxItems centroids.          *)
(*                                                                         *)
(* SpecGlyph   recognizeDigit (core/digitRecognizer.ts), of both           *)
(*             recognizer modules, applied to a family of glyph masks      *)
(*             with every answer of the recognition backend.               *)
(*                                                                         *)
(* SpecBackend the lazily created InferenceSession of core/digitNN.ts:     *)
(*             getDigitDetector, recognizeDigitNN and disposeDigitModel    *)
(*             called by up to MaxCallers async callers, one action per    *)
(*             stretch of code between two awaits.                         *)
(*                                                                         *)
(* SpecStrip   ConstraintParser.parseNumbers and parseDualDigitGroup with  *)
(*             the recognitions they await, on strips of up to MaxGlyphs   *)
(*             glyphs.                                                     *)
(*                                                                         *)
(* SpecAnalyzers  ConstraintParser.parse, PieceParser.parse and            *)
(*             MapParser.parse, each on inputs of its own, those without   *)
(*             color, size, grid box or detections included.               *)
(*                                                                         *)
(* SpecParse   ConstraintParser.parse on strip images (mode detection,     *)
(*             rotation, bar and digit extraction), up to MaxParses calls  *)
(*             on the one parser instance interleaving at their awaits.    *)
(*                                                                         *)
(* SpecPipeline  ImageProcessor.process and metadataToPuzzleData feeding   *)
(*             solvePuzzle: the PuzzleData an analysed image gives, then   *)
(*             the search of Spec on it.                                   *)
(*                                                                         *)
(* Rows, columns, rotation indices and piece indices are 0-based as in the *)
(* source; sequences are 1-based, so element i of an array a is a[i + 1].  *)
(***************************************************************************)
EXTENDS Integers, Sequences, FiniteSets, TLC

VARIABLES
    puzzleData,   \* the PuzzleData handed to solvePuzzle (grid = cell object ids)
    heap,         \* cell object id -> GridCell [type, pieceId]
    input0,       \* history: the GridCell values of puzzleData.grid at call time
    pieceRotations, \* solvePuzzle.pieceRotations: piece id -> unique rotations
    workingGrid,  \* solvePuzzle.workingGrid (cell object ids)
    placements,   \* solvePuzzle.placements
    stack,        \* the active backtrack(idx) calls, innermost last
    pc,           \* position of the search
    ret,          \* value returned by the backtrack call that just returned
    result,       \* the value solvePuzzle returned
    solved,       \* SolutionDisplay.solved: the GridCell values applySolution gave
    shape,        \* SpecShapes: the input shape
    out,          \* SpecShapes: the value computed from it
    spc,          \* SpecShapes: which function was applied
    gridBbox,     \* MapParser.parse: the grid box, or null
    cellDetections, \* MapParser.parse: the CellDetections, in input order
    gridDims,     \* the value of estimateGridSize
    cellMap,      \* buildCellMap.cellMap: key -> CellInfo
    di,           \* buildCellMap: index of the next detection of phase 1
    mapResult,    \* the MapResult that parse returned
    mapSteps,     \* history: the private methods of MapParser that ran
    mpc,          \* position of MapParser.parse
    clusterItems, \* clusterByX: items, in input order
    clusterGroups, \* clusterByX: the groups returned
    kpc,          \* SpecCluster: whether clusterByX was applied
    glyph,        \* recognizeDigit: the arguments [mask, width, height, rotated]
    recognizer,   \* which digitRecognizer module served the call
    answer,       \* what the recognition backend answered
    digit,        \* the value recognizeDigit resolved to
    gpc,          \* SpecGlyph: whether recognizeDigit was applied
    session,      \* digitNN.session: 0 (null) or the id of an InferenceSession
    initPromise,  \* digitNN.initPromise: 0 (null) or the id of a promise
    promises,     \* promise id -> "pending", "fulfilled" or "rejected"
    callers,      \* the async calls in progress, one per caller
    calls,        \* history: the number of calls made
    sessions,     \* history: the number of InferenceSessions created
    teardowns,    \* history: disposeDigitModel calls made, sessions removed
    stripColors,  \* parseNumbers: colors (one, or two in dual-color mode)
    stripDigits,  \* the digits extractDigitsSingle / extractDigitsDual found
    stripZeros,   \* the zeros detectZeroSymbols found
    allElements,  \* parseNumbers: allElements sorted (single color)
    groups,       \* parseNumbers: groups (dual color)
    ei,           \* index of the element or group the loop is at
    ci,           \* parseDualDigitGroup: index of the color the loop is at
    values,       \* parseDualDigitGroup: values
    constraints,  \* parseNumbers: constraints
    requests,     \* history: the recognizeDigit calls made, in order
    tpc,          \* position of parseNumbers
    stripImage,   \* ConstraintParser.parse: the strip image
    stripResult,  \* ConstraintParser.parse: the ConstraintStripResult
    panelImage,   \* PieceParser.parse: the panel image
    pieceList,    \* PieceParser.parse: the PieceInfo[] returned
    apc,          \* position of the two parse calls
    wasRotated,   \* ConstraintParser.wasRotated of the one instance
    parseCalls    \* the parse calls made on the instance, by call

vars == <<puzzleData, heap, input0, pieceRotations, workingGrid, placements,
          stack, pc, ret, result, solved, shape, out, spc,
          gridBbox, cellDetections, gridDims, cellMap, di, mapResult,
          mapSteps, mpc, clusterItems, clusterGroups, kpc,
          glyph, recognizer, answer, digit, gpc,
          session, initPromise, promises, callers, calls, sessions,
          teardowns, stripColors, stripDigits, stripZeros, allElements,
          groups, ei, ci, values, constraints, requests, tpc,
          stripImage, stripResult, panelImage, pieceList, apc,
          wasRotated, parseCalls>>

solverVars == <<puzzleData, heap, input0, pieceRotations, workingGrid,
                placements, stack, pc, ret, result, solved>>

shapeVars == <<shape, out, spc>>

mapVars == <<gridBbox, cellDetections, gridDims, cellMap, di, mapResult,
             mapSteps, mpc>>

clusterVars == <<clusterItems, clusterGroups, kpc>>

glyphVars == <<glyph, recognizer, answer, digit, gpc>>

backendVars == <<session, initPromise, promises, callers, calls, sessions,
                 teardowns>>

\* the variables of the digit recognition and of the strip analyzer
stripVars == <<stripColors, stripDigits, stripZeros, allElements, groups, ei,
               ci, values, constraints, requests, tpc>>

\* the variables of ConstraintParser.parse and PieceParser.parse
analyzerVars == <<stripImage, stripResult, panelImage, pieceList, apc>>

\* the variables of the interleaved ConstraintParser.parse calls
parserVars == <<wasRotated, parseCalls>>

digitVars == <<glyphVars, backendVars, stripVars, analyzerVars, parserVars>>

(***************************************************************************)
(* Bounds                                                                  *)
(***************************************************************************)
MaxShapeDim == 3
MaxPieces == 2
MaxMarks == 1

(***************************************************************************)
(* Small helpers                                                           *)
(***************************************************************************)
SetMin(S) == CHOOSE x \in S : \A y \in S : x <= y

SetMax(S) == CHOOSE x \in S : \A y \in S : x >= y

\* a.slice(from, to) of JavaScript, 0-based, to exclusive
Slice(a, from, to) == SubSeq(a, from + 1, to)

\* the single element of a one-element set
TheOne(S) == CHOOSE x \in S : TRUE

(***************************************************************************)
(* Shape rotation utilities                                                *)
(***************************************************************************)
\* one iteration of the loop of generateRotations: rot[c] = cur[rows-1..0][c]
RotateOnce(cur) ==
    LET rows == Len(cur)
        cols == Len(cur[1])
    IN  [c \in 1..cols |-> [j \in 1..rows |-> cur[rows - j + 1][c]]]

\* generateRotations that turns the other way round
generateRotationsCounter(s) ==
    LET r1 == RotateOnce(s)
        r2 == RotateOnce(r1)
        r3 == RotateOnce(r2)
    IN  <<s, r3, r2, r1>>

generateRotations(s) ==
    LET r1 == RotateOnce(s)
        r2 == RotateOnce(r1)
        r3 == RotateOnce(r2)
    IN  <<s, r1, r2, r3>>

\* normalizeShape that crops the rows but keeps every column
normalizeShapeRowsOnly(s) ==
    LET filledRows == {r \in 0..(Len(s) - 1) : \E c \in 1..Len(s[r + 1]) : s[r + 1][c]}
    IN  IF filledRows = {} THEN << <<>> >>
        ELSE Slice(s, SetMin(filledRows), SetMax(filledRows) + 1)

normalizeShape(s) ==
    LET filled == {rc \in (0..(Len(s) - 1)) \X (0..(Len(s[1]) - 1)) :
                       rc[2] < Len(s[rc[1] + 1]) /\ s[rc[1] + 1][rc[2] + 1]}
        minR == SetMin({rc[1] : rc \in filled})
        maxR == SetMax({rc[1] : rc \in filled})
        minC == SetMin({rc[2] : rc \in filled})
        maxC == SetMax({rc[2] : rc \in filled})
        rowsKept == Slice(s, minR, maxR + 1)
    IN  IF filled = {} THEN << <<>> >>
        ELSE [i \in 1..Len(rowsKept) |-> Slice(rowsKept[i], minC, maxC + 1)]

shapesEqual(a, b) ==
    /\ Len(a) = Len(b)
    /\ \A r \in 1..Len(a) :
         /\ Len(a[r]) = Len(b[r])
         /\ \A c \in 1..Len(a[r]) : a[r][c] = b[r][c]

RECURSIVE Dedup(_, _)
\* the loop of getUniqueRotations: push s unless uniq already holds an equal shape
Dedup(all, uniq) ==
    IF all = <<>> THEN uniq
    ELSE LET s == Head(all)
         IN  IF \E i \in 1..Len(uniq) : shapesEqual(uniq[i], s)
             THEN Dedup(Tail(all), uniq)
             ELSE Dedup(Tail(all), Append(uniq, s))

\* getUniqueRotations that keeps every rotation, equal or not
getUniqueRotationsNoDedup(piece) ==
    LET gen == generateRotations(piece.shape)
    IN  [i \in 1..Len(gen) |-> normalizeShape(gen[i])]

\* (gen and all are each computed once and then used as values)
getUniqueRotations(piece) ==
    LET Normalized(gen) == [i \in 1..Len(gen) |-> normalizeShape(gen[i])]
        Unique(gen) == TheOne({Dedup(all, <<>>) : all \in {Normalized(gen)}})
    IN  TheOne({Unique(gen) : gen \in {generateRotations(piece.shape)}})

(***************************************************************************)
(* Types                                                                   *)
(***************************************************************************)
ColorCode == {"GN", "BL", "CY", "OG"}

CellType == {"empty", "blocked"} \cup ColorCode

\* GridCell.pieceId is optional: an absent pieceId reads as undefined
undefined == "undefined"

Digits == <<"0", "1", "2", "3", "4", "5", "6", "7", "8", "9">>

\* the id metadataToPuzzleData gives the i-th piece (i from 0): `piece-${i}`
PieceIdOf(i) == "piece-" \o Digits[i + 1]

\* cnt[cc] ?? 0 on a Constraint (a partial map color -> count)
Get(cnt, cc) == IF cc \in DOMAIN cnt THEN cnt[cc] ELSE 0

(***************************************************************************)
(* Grid operations.  A grid is an array of arrays of cell objects; h is    *)
(* the heap the objects live in.                                           *)
(***************************************************************************)
NumRowsOf(grid) == Len(grid)

NumColsOf(grid) == Len(grid[1])

CellAt(h, grid, r, c) == h[grid[r + 1][c + 1]]

\* the (r, c) offsets with shape[r][c] true, as the double loops visit them
FilledOffsets(s) ==
    {rc \in (0..(Len(s) - 1)) \X (0..(Len(s[1]) - 1)) :
         rc[2] < Len(s[rc[1] + 1]) /\ s[rc[1] + 1][rc[2] + 1]}

\* canPlace that looks at blocked cells only, not at cells already owned
canPlaceIgnoreOwner(h, grid, s, sr, sc) ==
    \A rc \in FilledOffsets(s) :
        LET gr == sr + rc[1]
            gc == sc + rc[2]
        IN  IF gr < 0 \/ gr >= Len(grid) \/ gc < 0 \/ gc >= Len(grid[1])
            THEN FALSE
            ELSE ~(CellAt(h, grid, gr, gc).type = "blocked")

canPlace(h, grid, s, sr, sc) ==
    \A rc \in FilledOffsets(s) :
        LET gr == sr + rc[1]
            gc == sc + rc[2]
        IN  IF gr < 0 \/ gr >= Len(grid) \/ gc < 0 \/ gc >= Len(grid[1])
            THEN FALSE
            ELSE ~(CellAt(h, grid, gr, gc).type = "blocked"
                   \/ CellAt(h, grid, gr, gc).pieceId \notin {undefined, ""})

\* the cell objects placePiece / removePiece / storeTypes touch
CoveredObjs(grid, s, sr, sc) ==
    {grid[sr + rc[1] + 1][sc + rc[2] + 1] : rc \in FilledOffsets(s)}

\* placePiece that colors the cells but records no owner
placePieceNoOwner(h, grid, s, sr, sc, pieceId, color) ==
    LET objs == CoveredObjs(grid, s, sr, sc)
    IN  [o \in DOMAIN h |->
            IF o \in objs
            THEN [h[o] EXCEPT !.type = IF h[o].type = "empty" THEN color
                                        ELSE h[o].type]
            ELSE h[o]]

\* placePiece that paints every covered cell in the piece's color
placePieceRecolor(h, grid, s, sr, sc, pieceId, color) ==
    [o \in DOMAIN h |->
        IF o \in CoveredObjs(grid, s, sr, sc)
        THEN [type |-> color, pieceId |-> pieceId]
        ELSE h[o]]

placePiece(h, grid, s, sr, sc, pieceId, color) ==
    LET objs == CoveredObjs(grid, s, sr, sc)
    IN  [o \in DOMAIN h |->
            IF o \in objs
            THEN [type |-> IF h[o].type = "empty" THEN color ELSE h[o].type,
                  pieceId |-> pieceId]
            ELSE h[o]]

\* key `${r},${c}` -> type of the cell, for every covered cell
storeTypes(h, grid, s, sr, sc) ==
    [key \in {<<sr + rc[1], sc + rc[2]>> : rc \in FilledOffsets(s)} |->
        CellAt(h, grid, key[1], key[2]).type]

\* removePiece that resets every covered cell to empty, whatever it was
removePieceToEmpty(h, grid, s, sr, sc, orig) ==
    [o \in DOMAIN h |->
        IF o \in CoveredObjs(grid, s, sr, sc)
        THEN [type |-> "empty", pieceId |-> undefined]
        ELSE h[o]]

removePiece(h, grid, s, sr, sc, orig) ==
    LET keys == {<<sr + rc[1], sc + rc[2]>> : rc \in FilledOffsets(s)}
        keyOf(o) == CHOOSE key \in keys : grid[key[1] + 1][key[2] + 1] = o
    IN  [o \in DOMAIN h |->
            IF o \in CoveredObjs(grid, s, sr, sc)
            THEN [type |-> IF keyOf(o) \in DOMAIN orig THEN orig[keyOf(o)]
                           ELSE "empty",
                  pieceId |-> undefined]
            ELSE h[o]]

\* cloneGrid that hands back the same cell objects
cloneGridAlias(h, grid) == [grid |-> grid, heap |-> h]

\* grid.map(row => row.map(cell => ({ ...cell }))): fresh cell objects
cloneGrid(h, grid) ==
    LET base == Cardinality(DOMAIN h)
        cols == IF Len(grid) = 0 THEN 0 ELSE Len(grid[1])
        fresh == [r \in 1..Len(grid) |->
                     [c \in 1..Len(grid[r]) |-> base + (r - 1) * cols + c]]
        newIds == {fresh[r][c] : r \in 1..Len(grid), c \in 1..cols}
        src(o) == CHOOSE rc \in (1..Len(grid)) \X (1..cols) :
                      fresh[rc[1]][rc[2]] = o
    IN  [grid |-> fresh,
         heap |-> [o \in DOMAIN h \cup newIds |->
                      IF o \in DOMAIN h THEN h[o]
                      ELSE h[grid[src(o)[1]][src(o)[2]]]]]

(***************************************************************************)
(* Constraint checking                                                     *)
(***************************************************************************)
countRow(h, grid, row) ==
    LET types == {CellAt(h, grid, row, i).type : i \in 0..(Len(grid[row + 1]) - 1)}
    IN  [t \in types \ {"empty", "blocked"} |->
            Cardinality({i \in 0..(Len(grid[row + 1]) - 1) :
                            CellAt(h, grid, row, i).type = t})]

countCol(h, grid, col) ==
    LET types == {CellAt(h, grid, r, col).type : r \in 0..(Len(grid) - 1)}
    IN  [t \in types \ {"empty", "blocked"} |->
            Cardinality({r \in 0..(Len(grid) - 1) :
                            CellAt(h, grid, r, col).type = t})]

\* checkConstraints that accepts a count below its target
checkConstraintsAtMost(h, grid, rowC, colC, colors) ==
    /\ \A r \in 0..(Len(grid) - 1) : \A i \in 1..Len(colors) :
          Get(countRow(h, grid, r), colors[i]) <= Get(rowC[r + 1], colors[i])
    /\ \A c \in 0..(Len(grid[1]) - 1) : \A i \in 1..Len(colors) :
          Get(countCol(h, grid, c), colors[i]) <= Get(colC[c + 1], colors[i])

checkConstraints(h, grid, rowC, colC, colors) ==
    /\ \A r \in 0..(Len(grid) - 1) : \A i \in 1..Len(colors) :
          Get(countRow(h, grid, r), colors[i]) = Get(rowC[r + 1], colors[i])
    /\ \A c \in 0..(Len(grid[1]) - 1) : \A i \in 1..Len(colors) :
          Get(countCol(h, grid, c), colors[i]) = Get(colC[c + 1], colors[i])

\* constraintsPossible that also prunes a count that has reached its target
constraintsPossibleStrict(h, grid, rowC, colC, colors) ==
    /\ \A r \in 0..(Len(grid) - 1) : \A i \in 1..Len(colors) :
          ~(Get(countRow(h, grid, r), colors[i]) >= Get(rowC[r + 1], colors[i])
            /\ Get(countRow(h, grid, r), colors[i]) > 0)
    /\ \A c \in 0..(Len(grid[1]) - 1) : \A i \in 1..Len(colors) :
          ~(Get(countCol(h, grid, c), colors[i]) >= Get(colC[c + 1], colors[i])
            /\ Get(countCol(h, grid, c), colors[i]) > 0)

\* constraintsPossible that looks at the rows only
constraintsPossibleRowsOnly(h, grid, rowC, colC, colors) ==
    \A r \in 0..(Len(grid) - 1) : \A i \in 1..Len(colors) :
        ~(Get(countRow(h, grid, r), colors[i]) > Get(rowC[r + 1], colors[i]))

constraintsPossible(h, grid, rowC, colC, colors) ==
    /\ \A r \in 0..(Len(grid) - 1) : \A i \in 1..Len(colors) :
          ~(Get(countRow(h, grid, r), colors[i]) > Get(rowC[r + 1], colors[i]))
    /\ \A c \in 0..(Len(grid[1]) - 1) : \A i \in 1..Len(colors) :
          ~(Get(countCol(h, grid, c), colors[i]) > Get(colC[c + 1], colors[i]))

(***************************************************************************)
(* solvePuzzle: the search                                                 *)
(***************************************************************************)
\* the GridCell values of a grid, row by row
GridVals(h, grid) ==
    [r \in 1..Len(grid) |-> [c \in 1..Len(grid[r]) |-> h[grid[r][c]]]]

\* for (const p of pieces) pieceRotations.set(p.id, getUniqueRotations(p)):
\* a later set() of the same id wins
BuildPieceRotations(pd) ==
    [id \in {pd.pieces[i].id : i \in 1..Len(pd.pieces)} |->
        getUniqueRotations(
            pd.pieces[SetMax({i \in 1..Len(pd.pieces) : pd.pieces[i].id = id})])]

RECURSIVE LoopCursor(_, _, _, _, _)
\* the three nested for loops of backtrack: the first (ri, row, col) at or
\* after the given one that passes all three loop conditions, or ri =
\* rots.length when the loops are over
LoopCursor(rots, grid, ri, row, col) ==
    IF ~(ri < Len(rots)) THEN <<Len(rots), 0, 0>>
    ELSE IF ~(row <= Len(grid) - Len(rots[ri + 1]))
         THEN LoopCursor(rots, grid, ri + 1, 0, 0)
         ELSE IF ~(col <= Len(grid[1]) - Len(rots[ri + 1][1]))
              THEN LoopCursor(rots, grid, ri, row + 1, 0)
              ELSE <<ri, row, col>>

NoOrig == [key \in {} |-> "empty"]

\* a backtrack(idx) call at the head of its loops
Frame(pd, pr, grid, idx) ==
    LET cur == IF idx >= Len(pd.pieces) THEN <<0, 0, 0>>
               ELSE LoopCursor(pr[pd.pieces[idx + 1].id], grid, 0, 0, 0)
    IN  [idx |-> idx, ri |-> cur[1], row |-> cur[2], col |-> cur[3],
         orig |-> NoOrig, pre |-> <<>>]

\* the loops with row as the innermost one: row++ first, then col
AdvanceColumnMajor(pd, pr, grid, f) ==
    LET rots == pr[pd.pieces[f.idx + 1].id]
        s == rots[f.ri + 1]
        cur == IF f.row + 1 <= Len(grid) - Len(s) THEN <<f.ri, f.row + 1, f.col>>
               ELSE IF f.col + 1 <= Len(grid[1]) - Len(s[1]) THEN <<f.ri, 0, f.col + 1>>
               ELSE LoopCursor(rots, grid, f.ri + 1, 0, 0)
    IN  [f EXCEPT !.ri = cur[1], !.row = cur[2], !.col = cur[3],
                  !.orig = NoOrig, !.pre = <<>>]

\* the innermost loop without its col++: the same candidate again
AdvanceNowhere(pd, pr, grid, f) ==
    [f EXCEPT !.orig = NoOrig, !.pre = <<>>]

\* the innermost loop's col++ and what follows from it
Advance(pd, pr, grid, f) ==
    LET cur == LoopCursor(pr[pd.pieces[f.idx + 1].id], grid, f.ri, f.row,
                          f.col + 1)
    IN  [f EXCEPT !.ri = cur[1], !.row = cur[2], !.col = cur[3],
                  !.orig = NoOrig, !.pre = <<>>]

Top == stack[Len(stack)]

Pop(st) == SubSeq(st, 1, Len(st) - 1)

TopPiece == puzzleData.pieces[Top.idx + 1]

TopRots == pieceRotations[TopPiece.id]

TopShape == TopRots[Top.ri + 1]

\* solvePuzzle up to the call backtrack(0)
Call ==
    /\ pc = "start"
    /\ \E cl \in {cloneGrid(heap, puzzleData.grid)},
          pr \in {BuildPieceRotations(puzzleData)} :
          /\ heap' = cl.heap
          /\ workingGrid' = cl.grid
          /\ pieceRotations' = pr
          /\ stack' = <<Frame(puzzleData, pr, cl.grid, 0)>>
    /\ placements' = <<>>
    /\ pc' = "loop"
    /\ UNCHANGED <<puzzleData, solved, input0, ret, result, shapeVars, mapVars, clusterVars, digitVars>>

\* if (idx >= pieces.length) return checkConstraints(...)
CheckAll ==
    /\ pc = "loop"
    /\ Top.idx >= Len(puzzleData.pieces)
    /\ Len(workingGrid) > 0
    /\ ret' = checkConstraints(heap, workingGrid, puzzleData.rowConstraints,
                               puzzleData.colConstraints, puzzleData.colors)
    /\ stack' = Pop(stack)
    /\ pc' = "return"
    /\ UNCHANGED <<puzzleData, solved, heap, input0, pieceRotations, workingGrid, placements, result,
                   shapeVars, mapVars, clusterVars, digitVars>>

\* the loops are over: return false
Exhausted ==
    /\ pc = "loop"
    /\ Top.idx < Len(puzzleData.pieces)
    /\ ~(Top.ri < Len(TopRots))
    /\ ret' = FALSE
    /\ stack' = Pop(stack)
    /\ pc' = "return"
    /\ UNCHANGED <<puzzleData, solved, heap, input0, pieceRotations, workingGrid, placements, result,
                   shapeVars, mapVars, clusterVars, digitVars>>

\* if (!canPlace(...)) continue
Skip ==
    /\ pc = "loop"
    /\ Top.idx < Len(puzzleData.pieces)
    /\ Top.ri < Len(TopRots)
    /\ ~canPlace(heap, workingGrid, TopShape, Top.row, Top.col)
    /\ stack' = [stack EXCEPT ![Len(stack)] = Advance(puzzleData, pieceRotations, workingGrid, Top)]
    /\ UNCHANGED <<puzzleData, solved, heap, input0, pieceRotations, workingGrid, placements, pc, ret,
                   result, shapeVars, mapVars, clusterVars, digitVars>>

\* orig = storeTypes(...); placePiece(...)
Place ==
    /\ pc = "loop"
    /\ Top.idx < Len(puzzleData.pieces)
    /\ Top.ri < Len(TopRots)
    /\ canPlace(heap, workingGrid, TopShape, Top.row, Top.col)
    /\ stack' = [stack EXCEPT
                   ![Len(stack)].orig =
                       storeTypes(heap, workingGrid, TopShape, Top.row, Top.col),
                   ![Len(stack)].pre = GridVals(heap, workingGrid)]
    /\ heap' = placePiece(heap, workingGrid, TopShape, Top.row, Top.col,
                          TopPiece.id, TopPiece.color)
    /\ pc' = "placed"
    /\ UNCHANGED <<puzzleData, solved, input0, pieceRotations, workingGrid, placements, ret, result,
                   shapeVars, mapVars, clusterVars, digitVars>>

\* constraintsPossible(...) holds: placements.push(...); backtrack(idx + 1)
Keep ==
    /\ pc = "placed"
    /\ constraintsPossible(heap, workingGrid, puzzleData.rowConstraints,
                           puzzleData.colConstraints, puzzleData.colors)
    /\ placements' = Append(placements,
                            [pieceId |-> TopPiece.id, row |-> Top.row,
                             col |-> Top.col, rotationIndex |-> Top.ri])
    /\ stack' = Append(stack, Frame(puzzleData, pieceRotations, workingGrid, Top.idx + 1))
    /\ pc' = "loop"
    /\ UNCHANGED <<puzzleData, solved, heap, input0, pieceRotations, workingGrid, ret, result,
                   shapeVars, mapVars, clusterVars, digitVars>>

\* constraintsPossible(...) fails: removePiece(...) and the next candidate
Prune ==
    /\ pc = "placed"
    /\ ~constraintsPossible(heap, workingGrid, puzzleData.rowConstraints,
                            puzzleData.colConstraints, puzzleData.colors)
    /\ heap' = removePiece(heap, workingGrid, TopShape, Top.row, Top.col, Top.orig)
    /\ stack' = [stack EXCEPT ![Len(stack)] = Advance(puzzleData, pieceRotations, workingGrid, Top)]
    /\ pc' = "loop"
    /\ UNCHANGED <<puzzleData, solved, input0, pieceRotations, workingGrid, placements, ret, result,
                   shapeVars, mapVars, clusterVars, digitVars>>

\* if (backtrack(idx + 1)) return true
Succeed ==
    /\ pc = "return"
    /\ stack # <<>>
    /\ ret = TRUE
    /\ stack' = Pop(stack)
    /\ UNCHANGED <<puzzleData, solved, heap, input0, pieceRotations, workingGrid, placements, pc, ret,
                   result, shapeVars, mapVars, clusterVars, digitVars>>

\* backtrack(idx + 1) returned false: placements.pop(); removePiece(...)
Undo ==
    /\ pc = "return"
    /\ stack # <<>>
    /\ ret = FALSE
    /\ placements' = Pop(placements)
    /\ heap' = removePiece(heap, workingGrid, TopShape, Top.row, Top.col, Top.orig)
    /\ stack' = [stack EXCEPT ![Len(stack)] = Advance(puzzleData, pieceRotations, workingGrid, Top)]
    /\ pc' = "loop"
    /\ UNCHANGED <<puzzleData, solved, input0, pieceRotations, workingGrid, ret, result, shapeVars, mapVars, clusterVars, digitVars>>

\* if (backtrack(0)) return { placements, solvedGrid: cloneGrid(workingGrid) }
ReturnSolution ==
    /\ pc = "return"
    /\ stack = <<>>
    /\ ret = TRUE
    /\ LET cl == cloneGrid(heap, workingGrid)
       IN  /\ heap' = cl.heap
           /\ result' = [placements |-> placements, solvedGrid |-> cl.grid]
    /\ pc' = "done"
    /\ UNCHANGED <<puzzleData, solved, input0, pieceRotations, workingGrid, placements, stack, ret,
                   shapeVars, mapVars, clusterVars, digitVars>>

\* the value of solvePuzzle when no solution is found
null == [isNull |-> TRUE]

\* return null
ReturnNull ==
    /\ pc = "return"
    /\ stack = <<>>
    /\ ret = FALSE
    /\ result' = null
    /\ pc' = "done"
    /\ UNCHANGED <<puzzleData, solved, heap, input0, pieceRotations, workingGrid, placements, stack,
                   ret, shapeVars, mapVars, clusterVars, digitVars>>

\* the orientation of every placement is the first one of its piece
OrientationUnrotated(piece, pl) == getUniqueRotations(piece)[1]

\* getUniqueRotations(piece)[pl.rotationIndex]
OrientationOf(piece, pl) == getUniqueRotations(piece)[pl.rotationIndex + 1]

RECURSIVE ApplyPlacements(_, _, _, _)

\* the loop of applySolution over the placements; pieceMap.get gives the
\* last piece of an id
ApplyPlacements(h, grid, pd, pls) ==
    IF pls = <<>> THEN h
    ELSE LET pl == Head(pls)
             having == {i \in 1..Len(pd.pieces) : pd.pieces[i].id = pl.pieceId}
         IN  IF having = {} THEN ApplyPlacements(h, grid, pd, Tail(pls))
             ELSE LET piece == pd.pieces[SetMax(having)]
                  IN  ApplyPlacements(
                          placePiece(h, grid, OrientationOf(piece, pl), pl.row,
                                     pl.col, piece.id, piece.color),
                          grid, pd, Tail(pls))

\* applySolution: the GridCell values of the grid it returns
applySolution(h, pd, solution) ==
    LET cl == cloneGrid(h, pd.grid)
    IN  GridVals(ApplyPlacements(cl.heap, cl.grid, pd, solution.placements),
                 cl.grid)

\* SolutionDisplay renders a Solution: solved = applySolution(puzzleData,
\* solution)
Display ==
    /\ pc = "done"
    /\ result # null
    /\ solved' = applySolution(heap, puzzleData, result)
    /\ pc' = "shown"
    /\ UNCHANGED <<puzzleData, heap, input0, pieceRotations, workingGrid,
                   placements, stack, ret, result, shapeVars, mapVars,
                   clusterVars, digitVars>>

(***************************************************************************)
(* The PuzzleData the search is run on                                     *)
(***************************************************************************)
\* the grid sizes modelled, <<rows, cols>>
GridSizes == {<<2, 3>>}

Cells(sz) == (1..sz[1]) \X (1..sz[2])

\* cells of the input map that are not EP: BK or a color, at <<row, col>>
MarkCatalog ==
    { [at |-> <<1, 2>>, type |-> "blocked"],
      [at |-> <<1, 1>>, type |-> "GN"],
      [at |-> <<2, 3>>, type |-> "BL"] }

\* the input maps: at most MaxMarks cells of the catalog are marked
InputMaps(sz) ==
    {[rc \in Cells(sz) |->
         IF \E k \in ms : k.at = rc THEN (CHOOSE k \in ms : k.at = rc).type
         ELSE "empty"] :
       ms \in {ms \in SUBSET MarkCatalog : Cardinality(ms) <= MaxMarks}}

\* pieces as the piece editor and the piece parser emit them (PuzzleItem)
PieceCatalog ==
    { [color |-> "GN", shape |-> << <<TRUE, TRUE>> >>],
      [color |-> "GN", shape |-> << <<TRUE, FALSE>>, <<TRUE, TRUE>> >>],
      [color |-> "BL", shape |-> << <<TRUE>> >>] }

PieceLists == UNION {[1..n -> PieceCatalog] : n \in 0..MaxPieces}

\* where the designer of a puzzle put a piece, <<row, col>> from 0
DesignSpots == {<<0, 0>>, <<0, 1>>}

\* the board the constraint strips were drawn from: the marks of the map
\* and every piece painted, unrotated, at its design spot
DesignBoard(sz, m, ps, spots) ==
    [rc \in Cells(sz) |->
        LET over == {i \in 1..Len(ps) :
                        /\ rc[1] - 1 - spots[i][1] \in 0..(Len(ps[i].shape) - 1)
                        /\ rc[2] - 1 - spots[i][2] \in 0..(Len(ps[i].shape[1]) - 1)
                        /\ ps[i].shape[rc[1] - spots[i][1]][rc[2] - spots[i][2]]}
        IN  IF m[rc] = "blocked" THEN "empty"
            ELSE IF m[rc] # "empty" THEN m[rc]
            ELSE IF over = {} THEN "empty"
            ELSE ps[SetMax(over)].color]

RECURSIVE SumItems(_, _, _, _)

\* toConstraints of metadataToPuzzleData: arr[it.index][it.color] =
\* (arr[it.index][it.color] ?? 0) + it.value over the items, in order
SumItems(items, n, index, color) ==
    IF n = 0 THEN 0
    ELSE SumItems(items, n - 1, index, color)
         + (IF items[n].index = index /\ items[n].color = color
            THEN items[n].value ELSE 0)

toConstraints(items, count) ==
    [k \in 1..count |->
        [cc \in {items[n].color : n \in {n \in 1..Len(items) :
                                            items[n].index = k - 1}} |->
            SumItems(items, Len(items), k - 1, cc)]]

RECURSIVE SetToSeq(_)

SetToSeq(S) ==
    IF S = {} THEN <<>>
    ELSE LET x == CHOOSE x \in S : TRUE IN <<x>> \o SetToSeq(S \ {x})

\* the ConstraintItems of a strip that shows, per line, the colors of the
\* board's line with their counts (if dense, also a zero for every color
\* the strip shows on some line)
StripItems(b, sz, isRow, dense) ==
    LET lines == IF isRow THEN sz[1] ELSE sz[2]
        count(k, cc) ==
            Cardinality({rc \in DOMAIN b :
                            /\ (IF isRow THEN rc[1] ELSE rc[2]) = k + 1
                            /\ b[rc] = cc})
    IN  SetToSeq({it \in [index : 0..(lines - 1), color : {"GN", "BL"},
                           value : 0..Cardinality(DOMAIN b)] :
                    /\ it.value = count(it.index, it.color)
                    /\ \/ it.value > 0
                       \/ dense /\ \E rc \in DOMAIN b : b[rc] = it.color})

\* metadataToPuzzleData
metadataToPuzzleData(m) ==
    [gridSize |-> [rows |-> m.num_row, cols |-> m.num_col],
     colors |-> m.colors,
     grid |-> [r \in 1..m.num_row |->
                 [c \in 1..m.num_col |-> [type |-> m.map[<<r, c>>],
                                           pieceId |-> undefined]]],
     rowConstraints |-> toConstraints(m.row_constraints, m.num_row),
     colConstraints |-> toConstraints(m.col_constraints, m.num_col),
     pieces |-> [i \in 1..Len(m.puzzles) |->
                    [id |-> PieceIdOf(i - 1), color |-> m.puzzles[i].color,
                     shape |-> m.puzzles[i].shape]]]

COLOR_ORDER == [GN |-> 0, CY |-> 1, OG |-> 2, BL |-> 3]

RECURSIVE SortColors(_)

\* [...colorSet].sort((a, b) => COLOR_ORDER[a] - COLOR_ORDER[b])
SortColors(S) ==
    IF S = {} THEN <<>>
    ELSE LET c == CHOOSE c \in S : \A d \in S : COLOR_ORDER[c] <= COLOR_ORDER[d]
         IN  <<c>> \o SortColors(S \ {c})

\* the colors of ImageProcessor.process: those of the row strip, else those
\* of the column strip, else those of the map, else those of the pieces
ProcessColors(rowItems, colItems, m, ps) ==
    LET rowColors == SortColors({rowItems[n].color : n \in 1..Len(rowItems)})
        colColors == SortColors({colItems[n].color : n \in 1..Len(colItems)})
        mapColors == SortColors({m[rc] : rc \in DOMAIN m} \ {"empty", "blocked"})
        colors == IF Len(rowColors) > 0 THEN rowColors
                  ELSE IF Len(colColors) > 0 THEN colColors ELSE mapColors
    IN  IF Len(colors) = 0 THEN SortColors({ps[i].color : i \in 1..Len(ps)})
        ELSE colors

RECURSIVE FirstSeen(_, _)

\* the elements of a Set in insertion order: [...colorSet]
FirstSeen(seq, seen) ==
    IF seq = <<>> THEN <<>>
    ELSE IF Head(seq) \in seen THEN FirstSeen(Tail(seq), seen)
    ELSE <<Head(seq)>> \o FirstSeen(Tail(seq), seen \cup {Head(seq)})

\* the colors of App.handleSolve: those of the map, row by row, then those
\* of the constraints, then those of the pieces
HandleSolveColors(sz, rowItems, colItems, m, ps) ==
    LET cell(n) == m[<<((n - 1) \div sz[2]) + 1, ((n - 1) % sz[2]) + 1>>]
        cells == [n \in 1..(sz[1] * sz[2]) |-> cell(n)]
        ofMap == SelectSeq(cells, LAMBDA x : x \notin {"empty", "blocked"})
    IN  FirstSeen(ofMap
                    \o [n \in 1..Len(rowItems) |-> rowItems[n].color]
                    \o [n \in 1..Len(colItems) |-> colItems[n].color]
                    \o [i \in 1..Len(ps) |-> ps[i].color], {})

\* who builds the PuzzleMetadata that doSolve receives
Callers == {"processImage", "handleSolve"}

\* the PuzzleMetadata for a map, a board shown by the strips (a row strip
\* draws no zero) and a piece panel, as its caller builds it
MetadataOf(by, sz, m, b, ps) ==
    LET rowItems == StripItems(b, sz, TRUE, FALSE)
        colItems == StripItems(b, sz, FALSE, TRUE)
    IN  [num_row |-> sz[1], num_col |-> sz[2],
         colors |-> IF by = "handleSolve"
                    THEN HandleSolveColors(sz, rowItems, colItems, m, ps)
                    ELSE ProcessColors(rowItems, colItems, m, ps),
         map |-> m,
         row_constraints |-> rowItems, col_constraints |-> colItems,
         puzzles |-> ps]

NotReturned == [pending |-> TRUE]

\* the grid of a PuzzleData as cell objects 1..rows*cols of the heap
InitSolver ==
    \E by \in Callers, sz \in GridSizes, ps \in PieceLists :
      \E m \in InputMaps(sz), spots \in [1..Len(ps) -> DesignSpots] :
        \E md \in {MetadataOf(by, sz, m, DesignBoard(sz, m, ps, spots), ps)} :
          \E pd \in {metadataToPuzzleData(md)} :
            /\ puzzleData =
                  [pd EXCEPT !.grid = [r \in 1..md.num_row |->
                      [c \in 1..md.num_col |-> (r - 1) * md.num_col + c]]]
            /\ heap = [o \in 1..(md.num_row * md.num_col) |->
                          pd.grid[((o - 1) \div md.num_col) + 1]
                                 [((o - 1) % md.num_col) + 1]]
            /\ input0 = pd
            /\ pieceRotations = <<>>
            /\ workingGrid = <<>>
            /\ placements = <<>>
            /\ stack = <<>>
            /\ pc = "start"
            /\ ret = FALSE
            /\ result = NotReturned
            /\ solved = <<>>

IdleShapes ==
    /\ shape = <<>>
    /\ out = <<>>
    /\ spc = "idle"

IdleMap ==
    /\ gridBbox = null
    /\ cellDetections = <<>>
    /\ gridDims = <<>>
    /\ cellMap = <<>>
    /\ di = 0
    /\ mapResult = NotReturned
    /\ mapSteps = <<>>
    /\ mpc = "idle"

IdleCluster ==
    /\ clusterItems = <<>>
    /\ clusterGroups = <<>>
    /\ kpc = "idle"

\* recognizeDigit returned without asking the recognition backend
NoAnswer == [kind |-> "none"]

IdleGlyph ==
    /\ glyph = "none"
    /\ recognizer = "none"
    /\ answer = NoAnswer
    /\ digit = "none"
    /\ gpc = "idle"

IdleBackend ==
    /\ session = 0
    /\ initPromise = 0
    /\ promises = <<>>
    /\ callers = <<>>
    /\ calls = 0
    /\ sessions = 0
    /\ teardowns = [calls |-> 0, removed |-> 0]

IdleStrip ==
    /\ stripColors = <<>>
    /\ stripDigits = <<>>
    /\ stripZeros = <<>>
    /\ allElements = <<>>
    /\ groups = <<>>
    /\ ei = 0
    /\ ci = 0
    /\ values = <<>>
    /\ constraints = <<>>
    /\ requests = <<>>
    /\ tpc = "idle"

\* no image handed to the parser yet, and no result returned yet
NoImage == [width |-> 0, height |-> 0, kind |-> "none"]

NotParsed == [kind |-> "none"]

IdleAnalyzers ==
    /\ stripImage = NoImage
    /\ stripResult = NotParsed
    /\ panelImage = NoImage
    /\ pieceList = <<>>
    /\ apc = "idle"

IdleParser ==
    /\ wasRotated = FALSE
    /\ parseCalls = <<>>

IdleDigit ==
    IdleGlyph /\ IdleBackend /\ IdleStrip /\ IdleAnalyzers /\ IdleParser

Init == InitSolver /\ IdleShapes /\ IdleMap /\ IdleCluster /\ IdleDigit

Next ==
    \/ Call
    \/ CheckAll
    \/ Exhausted
    \/ Skip
    \/ Place
    \/ Keep
    \/ Prune
    \/ Succeed
    \/ Undo
    \/ ReturnSolution
    \/ ReturnNull
    \/ Display

Spec == Init /\ [][Next]_vars

(***************************************************************************)
(* SpecShapes: the shape functions on every rectangular boolean grid       *)
(***************************************************************************)
ShapeDomain ==
    UNION {[1..h -> [1..w -> BOOLEAN]] : h \in 1..MaxShapeDim, w \in 1..MaxShapeDim}

IdleSolver ==
    /\ puzzleData = <<>>
    /\ heap = <<>>
    /\ input0 = <<>>
    /\ pieceRotations = <<>>
    /\ workingGrid = <<>>
    /\ placements = <<>>
    /\ stack = <<>>
    /\ pc = "idle"
    /\ ret = FALSE
    /\ result = NotReturned
    /\ solved = <<>>

InitShapes ==
    /\ IdleSolver
    /\ IdleMap
    /\ IdleCluster
    /\ IdleDigit
    /\ shape \in ShapeDomain
    /\ out = <<>>
    /\ spc = "input"

Normalize ==
    /\ spc = "input"
    /\ out' = normalizeShape(shape)
    /\ spc' = "normalized"
    /\ UNCHANGED <<shape, solverVars, mapVars, clusterVars, digitVars>>

Rotate ==
    /\ spc = "input"
    /\ out' = generateRotations(shape)
    /\ spc' = "rotated"
    /\ UNCHANGED <<shape, solverVars, mapVars, clusterVars, digitVars>>

UniqueRotations ==
    /\ spc = "input"
    /\ out' = getUniqueRotations([id |-> PieceIdOf(0), color |-> "GN",
                                  shape |-> shape])
    /\ spc' = "unique"
    /\ UNCHANGED <<shape, solverVars, mapVars, clusterVars, digitVars>>

NextShapes ==
    \/ Normalize
    \/ Rotate
    \/ UniqueRotations

SpecShapes == InitShapes /\ [][NextShapes]_vars

(***************************************************************************)
(* Properties of the shape functions                                       *)
(***************************************************************************)
HasFilled(s) == \E r \in 1..Len(s) : \E c \in 1..Len(s[r]) : s[r][c]

\* the filled cells of a shape, <<row, col>> from 0
FilledSet(s) == {rc \in (0..(Len(s) - 1)) \X (0..(Len(s[1]) - 1)) : s[rc[1] + 1][rc[2] + 1]}

\* the filled cells moved so that the least row and the least column are 0
AtOrigin(F) ==
    LET r0 == SetMin({rc[1] : rc \in F})
        c0 == SetMin({rc[2] : rc \in F})
    IN  {<<rc[1] - r0, rc[2] - c0>> : rc \in F}

Rectangular(s) == \A r \in 1..Len(s) : Len(s[r]) = Len(s[1])

NoEmptyBorder(s) ==
    /\ Len(s) >= 1 /\ Len(s[1]) >= 1 /\ Rectangular(s)
    /\ \E c \in 1..Len(s[1]) : s[1][c]
    /\ \E c \in 1..Len(s[1]) : s[Len(s)][c]
    /\ \E r \in 1..Len(s) : s[r][1]
    /\ \E r \in 1..Len(s) : s[r][Len(s[1])]

\* C9 as stated: for every rectangular boolean shape with a filled cell,
\* getUniqueRotations gives 1 to 4 pairwise distinct shapes, one of which is
\* the shape it was given.
C9_ContainsInputShape ==
    (spc = "unique" /\ HasFilled(shape)) =>
        /\ Len(out) \in 1..4
        /\ \A i, j \in 1..Len(out) : i # j => out[i] # out[j]
        /\ \E i \in 1..Len(out) : out[i] = shape

\* C9 amended: for every rectangular boolean shape with a filled cell,
\* getUniqueRotations gives 1 to 4 pairwise distinct shapes, each without an
\* empty border row or column; the list contains the given shape cropped to
\* its bounding box (first in the list), which is the given shape itself
\* exactly when that shape has no empty border row or column.
C9_UniqueRotations ==
    (spc = "unique" /\ HasFilled(shape)) =>
        /\ Len(out) \in 1..4
        /\ \A i, j \in 1..Len(out) : i # j => out[i] # out[j]
        /\ \A i \in 1..Len(out) : NoEmptyBorder(out[i])
        /\ FilledSet(out[1]) = AtOrigin(FilledSet(shape))
        /\ (\E i \in 1..Len(out) : out[i] = shape) <=> NoEmptyBorder(shape)

\* a shape with an empty border whose rotations coincide in pairs
C9_Witness ==
    /\ spc = "unique"
    /\ HasFilled(shape)
    /\ ~NoEmptyBorder(shape)
    /\ Len(out) = 2

RECURSIVE RotatedBy(_, _)

\* the shape turned clockwise by k quarter turns
RotatedBy(s, k) == IF k = 0 THEN s ELSE RotateOnce(RotatedBy(s, k - 1))

\* C26: the list of getUniqueRotations is a prefix of the normalized
\* rotations by 0, 90, 180 and 270 degrees clockwise, of length 1, 2 or 4:
\* the orientation at rotationIndex k is the shape turned by k x 90 degrees.
C26_PrefixOfRotations ==
    spc = "unique" =>
        /\ Len(out) \in {1, 2, 4}
        /\ \A k \in 0..(Len(out) - 1) :
              out[k + 1] = normalizeShape(RotatedBy(shape, k))

\* a shape without an empty border that has two orientations, the second
\* its quarter turn
C26_Witness ==
    /\ spc = "unique"
    /\ HasFilled(shape)
    /\ NoEmptyBorder(shape)
    /\ Len(out) = 2
    /\ out[2] = RotateOnce(shape)
    /\ out[2] # shape

\* C10: for every piece shape (a grid with at least one filled cell),
\* normalizeShape returns a rectangular grid whose first row, last row, first
\* column and last column each hold a filled cell, and whose filled cells
\* are those of the input translated to the origin.
C10_NormalizeShape ==
    (spc = "normalized" /\ HasFilled(shape)) =>
        /\ NoEmptyBorder(out)
        /\ FilledSet(out) = AtOrigin(FilledSet(shape))

\* a shape whose first row and first column are empty was cropped
C10_Witness ==
    /\ spc = "normalized"
    /\ HasFilled(shape)
    /\ \A c \in 1..Len(shape[1]) : ~shape[1][c]
    /\ \A r \in 1..Len(shape) : ~shape[r][1]
    /\ Len(out) < Len(shape)
    /\ Len(out[1]) < Len(shape[1])

(***************************************************************************)
(* Properties of the search                                                *)
(***************************************************************************)
Searching == pc \in {"loop", "placed", "return"}

Returned == pc = "done"

ReturnedSolution == pc = "done" /\ result # null

Rows == 0..(puzzleData.gridSize.rows - 1)

Cols == 0..(puzzleData.gridSize.cols - 1)

ColorSet == {puzzleData.colors[i] : i \in 1..Len(puzzleData.colors)}

\* recount: the cells of row r (column k) of a grid of values with type cc
RowCount(vals, r, cc) == Cardinality({k \in Cols : vals[r + 1][k + 1].type = cc})

ColCount(vals, k, cc) == Cardinality({r \in Rows : vals[r + 1][k + 1].type = cc})

RowTarget(r, cc) ==
    IF cc \in DOMAIN puzzleData.rowConstraints[r + 1]
    THEN puzzleData.rowConstraints[r + 1][cc] ELSE 0

ColTarget(k, cc) ==
    IF cc \in DOMAIN puzzleData.colConstraints[k + 1]
    THEN puzzleData.colConstraints[k + 1][cc] ELSE 0

SolvedVals == GridVals(heap, result.solvedGrid)

WorkingVals == GridVals(heap, workingGrid)

InputHasColorMark ==
    \E r \in Rows, k \in Cols : input0.grid[r + 1][k + 1].type \in ColorCode

\* C1: in every returned Solution the recount of solvedGrid gives, for every
\* row, every column and every color of the puzzle's color set, exactly the
\* declared target (an absent entry means 0).
C1_ExactCounts ==
    ReturnedSolution =>
        \A cc \in ColorSet :
            /\ \A r \in Rows : RowCount(SolvedVals, r, cc) = RowTarget(r, cc)
            /\ \A k \in Cols : ColCount(SolvedVals, k, cc) = ColTarget(k, cc)

\* a Solution with two pieces of two colors on a map with a colored mark
C1_Witness ==
    /\ ReturnedSolution
    /\ Len(result.placements) = 2
    /\ ColorSet = {"GN", "BL"}
    /\ InputHasColorMark
    /\ \E r \in Rows : RowCount(SolvedVals, r, "GN") > 0 /\ RowCount(SolvedVals, r, "BL") > 0

(***************************************************************************)
(* The feasible assignments of a puzzle, from its definition               *)
(***************************************************************************)
NumPieces == Len(puzzleData.pieces)

\* the orientations of every piece, in input order
AllOrientations == [i \in 1..NumPieces |-> getUniqueRotations(puzzleData.pieces[i])]

\* the cells a piece covers in orientation t[1] of its orientations os, with
\* its top-left at (t[2], t[3])
Footprint(os, t) == {<<t[2] + rc[1], t[3] + rc[2]>> : rc \in FilledSet(os[t[1] + 1])}

\* orientation and offset that keep a piece in bounds and off blocked cells
ValidSpots(os) ==
    {t \in (0..(Len(os) - 1)) \X Rows \X Cols :
        \A rc \in Footprint(os, t) :
            /\ rc[1] \in Rows /\ rc[2] \in Cols
            /\ input0.grid[rc[1] + 1][rc[2] + 1].type # "blocked"}

RECURSIVE DisjointChoices(_, _)

\* every way to give each of the first n pieces one of its valid spots so
\* that no two of them share a cell, each with the cells it covers
DisjointChoices(O, n) ==
    IF n = 0 THEN {[a |-> <<>>, used |-> {}]}
    ELSE LET prev == DisjointChoices(O, n - 1)
             spots == {[t |-> t, fp |-> Footprint(O[n], t)] : t \in ValidSpots(O[n])}
         IN  UNION {{[a |-> Append(p.a, s.t), used |-> p.used \cup s.fp] :
                        s \in {s \in spots : s.fp \cap p.used = {}}} :
                    p \in prev}

\* the grid an assignment gives: an empty cell takes the color of the piece
\* on it, any other cell keeps its type
AssignedVals(O, a) ==
    LET fp == [i \in 1..NumPieces |-> Footprint(O[i], a[i])]
    IN  [r \in 1..puzzleData.gridSize.rows |->
            [k \in 1..puzzleData.gridSize.cols |->
                LET on == {i \in 1..NumPieces : <<r - 1, k - 1>> \in fp[i]}
                IN  [type |-> IF input0.grid[r][k].type # "empty" \/ on = {}
                              THEN input0.grid[r][k].type
                              ELSE puzzleData.pieces[CHOOSE i \in on : TRUE].color]]]

MeetsTargets(vals) ==
    \A cc \in ColorSet :
        /\ \A r \in Rows : RowCount(vals, r, cc) = RowTarget(r, cc)
        /\ \A k \in Cols : ColCount(vals, k, cc) = ColTarget(k, cc)

\* the feasible assignments: in bounds, off blocked cells, disjoint, and the
\* grid meets every target of the color set
FeasibleFor(O) ==
    {a \in {p.a : p \in DisjointChoices(O, NumPieces)} :
        MeetsTargets(AssignedVals(O, a))}

FeasibleSet == FeasibleFor(AllOrientations)

\* the placements of a Solution as an assignment
AsAssignment(ps) ==
    [i \in 1..Len(ps) |-> <<ps[i].rotationIndex, ps[i].row, ps[i].col>>]

\* C2: solvePuzzle returns null iff no assignment of one (orientation,
\* top-left offset) to every piece keeps all pieces in bounds, off blocked
\* cells and disjoint and meets every row/column target of every color of
\* the color set exactly.
C2_NullIffInfeasible ==
    Returned => ((result = null) <=> (FeasibleSet = {}))

\* a Solution whose first piece is not at the first candidate of the search
C2_Witness ==
    /\ ReturnedSolution
    /\ Len(result.placements) = 2
    /\ AsAssignment(result.placements)[1] # <<0, 0, 0>>
    /\ FeasibleSet # {}

TripleLess(t, u) ==
    \/ t[1] < u[1]
    \/ t[1] = u[1] /\ t[2] < u[2]
    \/ t[1] = u[1] /\ t[2] = u[2] /\ t[3] < u[3]

\* a comes before b: at the first piece where they differ, a's placement is
\* the lesser under (rotationIndex, row, col)
LexLess(a, b) ==
    \E i \in 1..NumPieces :
        /\ \A j \in 1..(i - 1) : a[j] = b[j]
        /\ TripleLess(a[i], b[i])

\* C3: the returned placements are, piece by piece in input order, the
\* lexicographically least feasible assignment under (rotationIndex, row,
\* col); the result is thereby a function of the PuzzleData.
C3_FirstInSearchOrder ==
    ReturnedSolution =>
        LET a == AsAssignment(result.placements)
            feasible == FeasibleSet
        IN  /\ Len(result.placements) = NumPieces
            /\ \A i \in 1..NumPieces :
                  result.placements[i].pieceId = puzzleData.pieces[i].id
            /\ a \in feasible
            /\ \A b \in feasible : b = a \/ LexLess(a, b)

\* a puzzle with several feasible assignments for two pieces
C3_Witness ==
    /\ ReturnedSolution
    /\ NumPieces = 2
    /\ Cardinality(FeasibleSet) >= 3

(***************************************************************************)
(* Frame, placement and pruning properties                                 *)
(***************************************************************************)
IdsOf(grid) == {grid[r][k] : r \in 1..Len(grid), k \in 1..Len(grid[1])}

\* C4: solvePuzzle never mutates its input: at every point of the call and
\* after it, with a Solution or null, every cell of puzzleData.grid has the
\* type and pieceId it had at the call, constraints, colors and pieces are
\* as given, and the returned solvedGrid shares no cell object with the
\* input grid.
C4_InputNotMutated ==
    /\ GridVals(heap, puzzleData.grid) = input0.grid
    /\ puzzleData.rowConstraints = input0.rowConstraints
    /\ puzzleData.colConstraints = input0.colConstraints
    /\ puzzleData.pieces = input0.pieces
    /\ puzzleData.colors = input0.colors
    /\ ReturnedSolution => IdsOf(result.solvedGrid) \cap IdsOf(puzzleData.grid) = {}

\* a Solution whose solvedGrid differs from the input grid
C4_Witness ==
    /\ ReturnedSolution
    /\ Len(result.placements) >= 1
    /\ SolvedVals # input0.grid
    /\ GridVals(heap, puzzleData.grid) = input0.grid

\* the cells a placement record covers
PlacedCells(p) ==
    {<<p.row + rc[1], p.col + rc[2]>> :
        rc \in FilledSet(pieceRotations[p.pieceId][p.rotationIndex + 1])}

\* the pieces on the working grid: the kept placements and, right after
\* placePiece, the tentative one
OnGrid ==
    IF pc = "placed"
    THEN Append(placements, [pieceId |-> TopPiece.id, row |-> Top.row,
                             col |-> Top.col, rotationIndex |-> Top.ri])
    ELSE placements

PlacementsValid(ps) ==
    /\ \A i \in 1..Len(ps) : \A rc \in PlacedCells(ps[i]) :
          /\ rc[1] \in Rows /\ rc[2] \in Cols
          /\ input0.grid[rc[1] + 1][rc[2] + 1].type # "blocked"
          /\ WorkingVals[rc[1] + 1][rc[2] + 1].type # "blocked"
    /\ \A i, j \in 1..Len(ps) :
          i # j => PlacedCells(ps[i]) \cap PlacedCells(ps[j]) = {}

\* C5: in every state of the search and in every returned Solution, the
\* cells of each placed piece lie inside the grid, none is a blocked cell,
\* and no cell is covered by two placed pieces.
C5_PlacementsDisjointInBounds ==
    /\ Searching => PlacementsValid(OnGrid)
    /\ ReturnedSolution => PlacementsValid(result.placements)

\* a second piece just placed next to a kept one on a map with a blocked cell
C5_Witness ==
    /\ pc = "placed"
    /\ Len(placements) = 1
    /\ \E r \in Rows, k \in Cols : input0.grid[r + 1][k + 1].type = "blocked"

\* the placements of the Solution that cover cell (r, k)
Covering(r, k) ==
    {i \in 1..Len(result.placements) : <<r, k>> \in PlacedCells(result.placements[i])}

\* C6 as stated: in the solvedGrid of every returned Solution, every cell
\* whose type is a color, pre-marked cells included, is owned by exactly one
\* placed piece.
C6_EveryColoredCellOwned ==
    ReturnedSolution =>
        \A r \in Rows, k \in Cols :
            SolvedVals[r + 1][k + 1].type \in ColorCode =>
                /\ Cardinality(Covering(r, k)) = 1
                /\ SolvedVals[r + 1][k + 1].pieceId # undefined

\* C6 amended: in the solvedGrid of every returned Solution, every cell whose
\* type is a color is either owned by exactly one placed piece (its pieceId
\* is that piece's id), or is a cell pre-marked with that color in the input
\* grid that no piece covers and that has no owner; every cell that was
\* empty in the input and is colored in the solvedGrid is owned by exactly
\* one placed piece, and no empty or blocked cell has an owner.
C6_ColoredCellOwnedOrPremarked ==
    ReturnedSolution =>
        \A r \in Rows, k \in Cols :
            LET cell == SolvedVals[r + 1][k + 1]
                before == input0.grid[r + 1][k + 1]
                on == Covering(r, k)
            IN  /\ cell.type \in ColorCode =>
                    \/ /\ Cardinality(on) = 1
                       /\ cell.pieceId = result.placements[CHOOSE i \in on : TRUE].pieceId
                    \/ /\ on = {}
                       /\ cell.pieceId = undefined
                       /\ before.type = cell.type
                /\ (before.type = "empty" /\ cell.type \in ColorCode) =>
                       Cardinality(on) = 1
                /\ cell.type \notin ColorCode => (on = {} /\ cell.pieceId = undefined)

\* a Solution that leaves a pre-marked colored cell without owner and one
\* that a piece covers
C6_Witness ==
    /\ ReturnedSolution
    /\ Len(result.placements) >= 1
    /\ \E r \in Rows, k \in Cols :
          /\ input0.grid[r + 1][k + 1].type \in ColorCode
          /\ Covering(r, k) = {}
          /\ SolvedVals[r + 1][k + 1].type = input0.grid[r + 1][k + 1].type

NoExcess(vals) ==
    \A cc \in ColorSet :
        /\ \A r \in Rows : RowCount(vals, r, cc) <= RowTarget(r, cc)
        /\ \A k \in Cols : ColCount(vals, k, cc) <= ColTarget(k, cc)

\* whenever placements are kept, the working grid holds exactly them and no
\* count of a color of the color set exceeds its target
KeptNoExcess ==
    (pc \in {"loop", "return", "done"} /\ Len(placements) >= 1) => NoExcess(WorkingVals)

\* placePiece lowers no count of any color
PlaceKeepsCounts ==
    (pc = "loop" /\ pc' = "placed") =>
        \A cc \in ColorCode :
            /\ \A r \in Rows : RowCount(GridVals(heap', workingGrid'), r, cc)
                                  >= RowCount(WorkingVals, r, cc)
            /\ \A k \in Cols : ColCount(GridVals(heap', workingGrid'), k, cc)
                                  >= ColCount(WorkingVals, k, cc)

\* C7: whenever the search keeps a placement and recurses, and for as long
\* as the placement stays kept, no row or column count of a color of the
\* color set exceeds its target on the working grid; placing a piece never
\* decreases a count.
C7_KeptPrefixWithinTargets == [](KeptNoExcess) /\ [][PlaceKeepsCounts]_vars

\* a kept first placement that fills some row to its target, second piece next
C7_Witness ==
    /\ pc = "loop"
    /\ Len(placements) = 1
    /\ NumPieces = 2
    /\ Top.idx = 1
    /\ \E r \in Rows : RowTarget(r, "GN") > 0 /\ RowCount(WorkingVals, r, "GN") = RowTarget(r, "GN")

\* a step that undoes the tentative placement of the innermost call: the
\* prune branch, or the return of a failed subtree
UndoStep ==
    \/ pc = "placed" /\ pc' = "loop" /\ Len(stack') = Len(stack)
    \/ pc = "return" /\ pc' = "loop"

\* the working grid is again what it was right before the placement
UndoRestores == UndoStep => GridVals(heap', workingGrid') = Top.pre

NullLeavesInitialClone ==
    (pc = "done" /\ result = null) => WorkingVals = input0.grid

\* C8: when a tentative placement is undone, the working grid equals its
\* state right before the placement, type and owner of every cell; when
\* solvePuzzle returns null the working grid equals the clone of the input.
C8_UndoRestoresGrid == [][UndoRestores]_vars /\ [](NullLeavesInitialClone)

\* the first piece has moved past its first candidate, which covered the
\* pre-marked colored cell at (0, 0): that placement was undone
C8_Witness ==
    /\ pc = "loop"
    /\ Len(stack) = 1
    /\ Top.idx = 0
    /\ <<Top.ri, Top.row, Top.col>> # <<0, 0, 0>>
    /\ input0.grid[1][1].type \in ColorCode
    /\ WorkingVals = input0.grid

\* C20 as stated: a solve call produces every feasible assignment: whatever
\* assignment of placements keeps the pieces in bounds, off blocked cells
\* and disjoint and meets every target is the one the call has returned.
C20_AllFeasibleProduced ==
    Returned =>
        \A b \in FeasibleSet :
            /\ result # null
            /\ AsAssignment(result.placements) = b

\* C27: a Solution holds exactly one placement per piece, in the order of
\* the pieces, and applySolution(puzzleData, solution) gives the solvedGrid
\* of the Solution cell for cell, type and owning piece id.
C27_ApplyReproducesSolvedGrid ==
    pc = "shown" =>
        /\ Len(result.placements) = Len(puzzleData.pieces)
        /\ \A i \in 1..Len(puzzleData.pieces) :
              result.placements[i].pieceId = puzzleData.pieces[i].id
        /\ solved = GridVals(heap, result.solvedGrid)

\* a Solution of two pieces, one of them turned, has been displayed
C27_Witness ==
    /\ pc = "shown"
    /\ Len(result.placements) = 2
    /\ \E i \in 1..2 : result.placements[i].rotationIndex > 0
    /\ solved # input0.grid

\* solvePuzzle is sequential code that nothing suspends: a step that can be
\* taken is taken
Search ==
    \/ Call \/ CheckAll \/ Exhausted \/ Skip \/ Place \/ Keep \/ Prune
    \/ Succeed \/ Undo \/ ReturnSolution \/ ReturnNull

FairSpec == Spec /\ WF_vars(Search)

\* C28: the search terminates: solvePuzzle eventually returns a Solution or
\* null.
C28_Terminates == <>(pc \in {"done", "shown"})

\* the search went through every candidate of two pieces and returned null
C28_Witness ==
    /\ pc = "done"
    /\ result = null
    /\ Len(puzzleData.pieces) = 2
    /\ \A i \in 1..2 : Len(pieceRotations[puzzleData.pieces[i].id]) > 1

\* the step of backtrack that calls placePiece
PlaceStep == pc = "loop" /\ pc' = "placed"

\* the cells under the filled cells of the candidate at the cursor
CursorCells ==
    {<<Top.row + rc[1], Top.col + rc[2]>> : rc \in FilledOffsets(TopShape)}

\* C21: placing a piece changes only the cells it covers. Every covered cell
\* gets the piece's id as owner; a covered cell that was empty takes the
\* piece's color; a covered cell that was pre-marked with a color keeps that
\* color; every cell that is not covered, of the working grid or of any
\* other grid, keeps its type and its owner.
PlaceFrame ==
    PlaceStep =>
        /\ \A r \in Rows, k \in Cols :
              LET before == WorkingVals[r + 1][k + 1]
                  after == WorkingVals'[r + 1][k + 1]
              IN  IF <<r, k>> \in CursorCells
                  THEN /\ after.pieceId = TopPiece.id
                       /\ after.type = IF before.type = "empty"
                                       THEN TopPiece.color
                                       ELSE before.type
                  ELSE after = before
        /\ workingGrid' = workingGrid
        /\ \A o \in DOMAIN heap :
              (\A r \in Rows, k \in Cols : workingGrid[r + 1][k + 1] # o)
                  => heap'[o] = heap[o]
        /\ DOMAIN heap' = DOMAIN heap

C21_PlaceFrame == [][PlaceFrame]_vars

\* a piece has just been laid over a cell pre-marked with another color,
\* next to a cell it does not cover
C21_Witness ==
    /\ pc = "placed"
    /\ \E rk \in CursorCells :
          /\ Top.pre[rk[1] + 1][rk[2] + 1].type \in ColorCode \ {TopPiece.color}
          /\ WorkingVals[rk[1] + 1][rk[2] + 1].type =
                Top.pre[rk[1] + 1][rk[2] + 1].type
          /\ WorkingVals[rk[1] + 1][rk[2] + 1].pieceId = TopPiece.id
    /\ \E r \in Rows, k \in Cols : <<r, k>> \notin CursorCells

MaxPartial == 4

MaxItems == 5

MaxExtra == 3

(***************************************************************************)
(* MapParser (core/mapParser.ts)                                           *)
(*                                                                         *)
(* Coordinates are whole pixels.  A centroid (bx1 + bx2) / 2 may be a half *)
(* pixel, so offsets from the box origin are kept doubled (cx2 = 2 * cx)   *)
(* and every quotient is taken exactly.  conf is kept in tenths.           *)
(***************************************************************************)
\* Box = [x1, y1, x2, y2]
Box(x1, y1, x2, y2) == [x1 |-> x1, y1 |-> y1, x2 |-> x2, y2 |-> y2]

\* the value of Math.floor(0 / 0): no cell index equals it, and it fails
\* every comparison of toMapArray
NaN == -1

Abs(x) == IF x < 0 THEN -x ELSE x

Min2(a, b) == IF a < b THEN a ELSE b

Max2(a, b) == IF a > b THEN a ELSE b

\* whether the centroid of a detection lies in the grid box (both ends in)
InBox(d, b) ==
    /\ d.box.x1 + d.box.x2 >= 2 * b.x1 /\ d.box.x1 + d.box.x2 <= 2 * b.x2
    /\ d.box.y1 + d.box.y2 >= 2 * b.y1 /\ d.box.y1 + d.box.y2 <= 2 * b.y2

\* centersX, centersY of estimateGridSize, doubled
Centers(cells, b) ==
    LET inside == SelectSeq(cells, LAMBDA d : InBox(d, b))
    IN  [i \in 1..Len(inside) |->
            [x2 |-> inside[i].box.x1 + inside[i].box.x2 - 2 * b.x1,
             y2 |-> inside[i].box.y1 + inside[i].box.y2 - 2 * b.y1]]

\* Math.min(Math.floor(off / (extent / n)), n - 1) for a doubled offset:
\* a zero extent divides by zero (0 / 0 is NaN, off / 0 is Infinity)
CellIndex(off2, extent, n) ==
    IF extent = 0 THEN (IF off2 = 0 THEN NaN ELSE n - 1)
    ELSE Min2((off2 * n) \div (2 * extent), n - 1)

\* a mutant: the occupancy test counts centroids, not distinct cells
verifyGridSizeCountsCentroids(centers, gridW, gridH, rows, cols) ==
    10 * Len(centers) >= 7 * rows * cols

verifyGridSize(centers, gridW, gridH, rows, cols) ==
    LET occupied == {<<CellIndex(centers[i].y2, gridH, rows),
                       CellIndex(centers[i].x2, gridW, cols)>> :
                        i \in 1..Len(centers)}
    IN  10 * Cardinality(occupied) >= 7 * rows * cols

RECURSIVE SortInts(_)

\* [...a].sort((a, b) => a - b) of a sequence of numbers
SortInts(a) ==
    IF a = <<>> THEN <<>>
    ELSE LET k == CHOOSE k \in 1..Len(a) : \A j \in 1..Len(a) : a[k] <= a[j]
         IN  <<a[k]>> \o SortInts([j \in 1..(Len(a) - 1) |->
                                      IF j < k THEN a[j] ELSE a[j + 1]])

\* the gaps between neighbours of a sorted list that exceed 5 px (doubled)
RealGaps(sorted) ==
    LET gaps == [i \in 1..(Len(sorted) - 1) |-> sorted[i + 1] - sorted[i]]
    IN  SelectSeq(gaps, LAMBDA g : g > 10)

\* Math.round(Math.sqrt(n))
RoundSqrt(n) ==
    CHOOSE s \in 0..n : (2 * s - 1) * (2 * s - 1) <= 4 * n
                        /\ 4 * n < (2 * s + 1) * (2 * s + 1)

\* Math.round(extent / med) for a doubled median gap
RoundDiv(extent, med2) == (4 * extent + med2) \div (2 * med2)

estimateFromSpacing(centers, gridW, gridH, nCells) ==
    IF nCells < 4 THEN [numRow |-> 0, numCol |-> 0]
    ELSE LET xs == SortInts([i \in 1..Len(centers) |-> centers[i].x2])
             ys == SortInts([i \in 1..Len(centers) |-> centers[i].y2])
             dx == RealGaps(xs)
             dy == RealGaps(ys)
         IN  IF Len(dx) = 0 \/ Len(dy) = 0
             THEN [numRow |-> RoundSqrt(nCells), numCol |-> RoundSqrt(nCells)]
             ELSE LET medDx == SortInts(dx)[(Len(dx) \div 2) + 1]
                      medDy == SortInts(dy)[(Len(dy) \div 2) + 1]
                  IN  [numRow |-> Max2(3, Min2(9, RoundDiv(gridH, medDy))),
                       numCol |-> Max2(3, Min2(9, RoundDiv(gridW, medDx)))]

\* Math.abs(nCells - expected) <= Math.max(2, expected * 0.15)
WithinTolerance(nCells, size) ==
    \/ Abs(nCells - size * size) <= 2
    \/ 100 * Abs(nCells - size * size) <= 15 * size * size

\* the square sizes the loop of estimateGridSize accepts, in no order
AcceptedSizes(centers, gridW, gridH) ==
    {size \in 3..9 :
        /\ WithinTolerance(Len(centers), size)
        /\ verifyGridSize(centers, gridW, gridH, size, size)}

estimateGridSize(cells, b) ==
    IF Len(cells) = 0 THEN [numRow |-> 0, numCol |-> 0]
    ELSE LET centers == Centers(cells, b)
             gridW == b.x2 - b.x1
             gridH == b.y2 - b.y1
             ok == AcceptedSizes(centers, gridW, gridH)
         IN  IF Len(centers) = 0 THEN [numRow |-> 0, numCol |-> 0]
             ELSE IF ok # {}
             THEN LET size == CHOOSE z \in ok : \A y \in ok : z <= y
                  IN  [numRow |-> size, numCol |-> size]
             ELSE estimateFromSpacing(centers, gridW, gridH, Len(centers))

\* the private methods a call of estimateGridSize runs, in order
EstimateSteps(cells, b) ==
    LET centers == Centers(cells, b)
        gridW == b.x2 - b.x1
        gridH == b.y2 - b.y1
    IN  <<"estimateGridSize">>
        \o (IF Len(cells) > 0 /\ \E size \in 3..9 : WithinTolerance(Len(centers), size)
            THEN <<"verifyGridSize">> ELSE <<>>)
        \o (IF Len(cells) > 0 /\ Len(centers) > 0
               /\ AcceptedSizes(centers, gridW, gridH) = {}
            THEN <<"estimateFromSpacing">> ELSE <<>>)

\* the CellCode phase 1 gives a detection; d.color is what detectColor
\* finds in the pixels of its box
CodeOf(d) ==
    IF d.label = "cell_occupied" THEN d.color
    ELSE IF d.label = "cell_obstacle" THEN "BK" ELSE "EP"

\* the cell a detection's centroid falls in
KeyOf(d, b, numRow, numCol) ==
    <<CellIndex(d.box.y1 + d.box.y2 - 2 * b.y1, b.y2 - b.y1, numRow),
      CellIndex(d.box.x1 + d.box.x2 - 2 * b.x1, b.x2 - b.x1, numCol)>>

\* a mutant: a later detection always replaces the cell's entry
OverwritesAlways(d, has) == TRUE

\* !cellMap.has(key) || cell.conf > 0.5
Overwrites(d, has) == ~has \/ d.conf > 5

CellInfo(key, code, source) ==
    [row |-> key[1], col |-> key[2], code |-> code, source |-> source]

toMapArray(cm, numRow, numCol) ==
    [r \in 1..numRow |-> [c \in 1..numCol |->
        IF <<r - 1, c - 1>> \in DOMAIN cm THEN cm[<<r - 1, c - 1>>].code
        ELSE "EP"]]

\* a mutant: an unusable-box result that still carries a grid
EmptyMapResultKeepsSize(b) ==
    [num_row |-> 3, num_col |-> 3, map |-> <<>>, grid_bbox |-> b,
     cells |-> <<>>]

EmptyMapResult(b) ==
    [num_row |-> 0, num_col |-> 0, map |-> <<>>, grid_bbox |-> b,
     cells |-> <<>>]

\* what classifyCellCV reads from the image, per cell: the images modelled
CvImages ==
    { [rc \in (0..8) \X (0..8) |-> "EP"],
      [rc \in (0..8) \X (0..8) |-> IF (rc[1] + rc[2]) % 2 = 0 THEN "BK" ELSE "OG"] }

\* classifyCellCV on the rectangle of cell k: a rectangle without pixels
\* (Math.floor(cellW) or Math.floor(cellH) is 0) is 'EP', any other is what
\* the image shows there
classifyCellCV(image, b, dims, k) ==
    IF (b.x2 - b.x1) \div dims.numCol = 0 \/ (b.y2 - b.y1) \div dims.numRow = 0
    THEN "EP" ELSE image[k]

\* parse, first return: no grid box
ParseNoBox ==
    /\ mpc = "parse"
    /\ gridBbox = null
    /\ mapResult' = EmptyMapResult(null)
    /\ mpc' = "done"
    /\ UNCHANGED <<gridBbox, cellDetections, gridDims, cellMap, di, mapSteps,
                   solverVars, shapeVars, clusterVars, digitVars>>

\* parse, second return: estimateGridSize finds no grid
ParseNoGrid ==
    /\ mpc = "parse"
    /\ gridBbox # null
    /\ LET size == estimateGridSize(cellDetections, gridBbox)
       IN  /\ size.numRow = 0 \/ size.numCol = 0
           /\ gridDims' = size
           /\ mapResult' = EmptyMapResult(gridBbox)
    /\ mapSteps' = mapSteps \o EstimateSteps(cellDetections, gridBbox)
    /\ mpc' = "done"
    /\ UNCHANGED <<gridBbox, cellDetections, cellMap, di, solverVars, shapeVars, clusterVars, digitVars>>

\* parse goes on to buildCellMap
ParseGrid ==
    /\ mpc = "parse"
    /\ gridBbox # null
    /\ LET size == estimateGridSize(cellDetections, gridBbox)
       IN  /\ ~(size.numRow = 0 \/ size.numCol = 0)
           /\ gridDims' = size
    /\ mapSteps' = mapSteps \o EstimateSteps(cellDetections, gridBbox)
                             \o <<"buildCellMap">>
    /\ cellMap' = <<>>
    /\ di' = 1
    /\ mpc' = "phase1"
    /\ UNCHANGED <<gridBbox, cellDetections, mapResult, solverVars, shapeVars, clusterVars, digitVars>>

\* phase 1, a detection whose centroid is outside the box: continue
Phase1Outside ==
    /\ mpc = "phase1"
    /\ di <= Len(cellDetections)
    /\ ~InBox(cellDetections[di], gridBbox)
    /\ di' = di + 1
    /\ UNCHANGED <<gridBbox, cellDetections, gridDims, cellMap, mapResult,
                   mapSteps, mpc, solverVars, shapeVars, clusterVars, digitVars>>

\* phase 1, cellMap.set(key, ...)
Phase1Set ==
    /\ mpc = "phase1"
    /\ di <= Len(cellDetections)
    /\ InBox(cellDetections[di], gridBbox)
    /\ LET d == cellDetections[di]
           key == KeyOf(d, gridBbox, gridDims.numRow, gridDims.numCol)
       IN  /\ Overwrites(d, key \in DOMAIN cellMap)
           /\ cellMap' = [k \in DOMAIN cellMap \cup {key} |->
                             IF k = key THEN CellInfo(key, CodeOf(d), "yolo")
                             ELSE cellMap[k]]
    /\ di' = di + 1
    /\ UNCHANGED <<gridBbox, cellDetections, gridDims, mapResult, mapSteps,
                   mpc, solverVars, shapeVars, clusterVars, digitVars>>

\* phase 1, the cell keeps the entry it has
Phase1Keep ==
    /\ mpc = "phase1"
    /\ di <= Len(cellDetections)
    /\ InBox(cellDetections[di], gridBbox)
    /\ LET d == cellDetections[di]
           key == KeyOf(d, gridBbox, gridDims.numRow, gridDims.numCol)
       IN  ~Overwrites(d, key \in DOMAIN cellMap)
    /\ di' = di + 1
    /\ UNCHANGED <<gridBbox, cellDetections, gridDims, cellMap, mapResult,
                   mapSteps, mpc, solverVars, shapeVars, clusterVars, digitVars>>

\* phase 2 for every cell without an entry, then toMapArray and the return
Phase2Return ==
    /\ mpc = "phase1"
    /\ di > Len(cellDetections)
    /\ \E image \in CvImages :
          LET missing == {rc \in (0..(gridDims.numRow - 1)) \X (0..(gridDims.numCol - 1)) :
                             rc \notin DOMAIN cellMap}
              cm == [k \in DOMAIN cellMap \cup missing |->
                        IF k \in missing
                        THEN CellInfo(k, classifyCellCV(image, gridBbox, gridDims, k), "cv")
                        ELSE cellMap[k]]
          IN  /\ cellMap' = cm
              /\ mapResult' = [num_row |-> gridDims.numRow,
                               num_col |-> gridDims.numCol,
                               map |-> toMapArray(cm, gridDims.numRow, gridDims.numCol),
                               grid_bbox |-> gridBbox,
                               cells |-> <<>>]
    /\ mapSteps' = IF \E rc \in (0..(gridDims.numRow - 1)) \X (0..(gridDims.numCol - 1)) :
                          rc \notin DOMAIN cellMap
                   THEN Append(mapSteps, "classifyCellCV") ELSE mapSteps
    /\ mpc' = "done"
    /\ UNCHANGED <<gridBbox, cellDetections, gridDims, di, solverVars, shapeVars, clusterVars, digitVars>>

(***************************************************************************)
(* The scenes MapParser.parse is run on: a grid box whose cells are        *)
(* Scene.cell px wide, and detections laid on the cells of an n x n        *)
(* lattice in row-major order.                                             *)
(***************************************************************************)
Scene == [x0 |-> 10, y0 |-> 20, cell |-> 10]

\* the square sizes estimateGridSize tries
LatticeSizes == 3..9

\* offsets of a centroid from the centre of its cell, in px
Jitters == {-4, 0, 4}

Labels == <<"cell_empty", "cell_occupied", "cell_obstacle", "cell_occupied">>

\* the conf values of successive detections, in tenths
ConfPatterns == {<<7, 3>>, <<3, 7, 5>>, <<7, 7, 3, 3, 5>>}

\* detection i (from 0) of a scene: on cell (i mod m) of the n x n lattice
LatticeDet(i, n, m, jit, cp) ==
    LET q == i % m
        left == Scene.x0 + Scene.cell * (q % n) + jit
        top == Scene.y0 + Scene.cell * (q \div n) + jit
    IN  [box |-> Box(left + 1, top + 1, left + Scene.cell - 1, top + Scene.cell - 1),
         label |-> Labels[(i % Len(Labels)) + 1],
         conf |-> cp[(i % Len(cp)) + 1],
         color |-> IF i % 3 = 0 THEN "GN" ELSE "BL"]

\* a detection left of the grid box
StrayDet ==
    [box |-> Box(Scene.x0 - 8, Scene.y0 + 1, Scene.x0 - 2, Scene.y0 + 7),
     label |-> "cell_obstacle", conf |-> 9, color |-> "GN"]

\* detection i of a scene whose box has no width: centroids on the line
LineDet(i, cp) ==
    [box |-> Box(Scene.x0 - 4, Scene.y0 + Scene.cell * i + 1,
                 Scene.x0 + 4, Scene.y0 + Scene.cell * (i + 1) - 1),
     label |-> Labels[(i % Len(Labels)) + 1],
     conf |-> cp[(i % Len(cp)) + 1],
     color |-> "GN"]

Transpose(d) ==
    [d EXCEPT !.box = Box(d.box.y1 - Scene.y0 + Scene.x0, d.box.x1 - Scene.x0 + Scene.y0,
                          d.box.y2 - Scene.y0 + Scene.x0, d.box.x2 - Scene.x0 + Scene.y0)]

SquareBox(n) ==
    Box(Scene.x0, Scene.y0, Scene.x0 + Scene.cell * n, Scene.y0 + Scene.cell * n)

\* every cell of an n x n lattice detected once, stray detections before
CompleteScenes ==
    {[gridBbox |-> SquareBox(n),
      cellDetections |-> [i \in 1..stray |-> StrayDet]
                         \o [i \in 1..(n * n) |-> LatticeDet(i - 1, n, n * n, jit, cp)]] :
        n \in LatticeSizes, jit \in Jitters, cp \in ConfPatterns,
        stray \in {0, MaxExtra}}

\* k detections on the first m cells of a small lattice
PartialScenes ==
    UNION {{[gridBbox |-> SquareBox(n),
             cellDetections |-> [i \in 1..k |-> LatticeDet(i - 1, n, m, 0, cp)]] :
               m \in 1..Max2(1, Min2(k, n * n)), cp \in ConfPatterns} :
           n \in 3..MaxPartial, k \in 0..(MaxPartial * MaxPartial + MaxExtra)}

\* no grid box, or a grid box of zero width or zero height
UnusableScenes ==
    {[gridBbox |-> null,
      cellDetections |-> [i \in 1..k |-> LatticeDet(i - 1, 3, 9, 0, <<7, 3>>)]] :
        k \in 0..(9 + MaxExtra)}
    \cup {[gridBbox |-> Box(Scene.x0, Scene.y0, Scene.x0, Scene.y0 + Scene.cell * n),
           cellDetections |-> [i \in 1..k |-> LineDet(i - 1, <<7, 3>>)]] :
            n \in 0..MaxPartial, k \in 0..(MaxPartial + MaxExtra)}
    \cup {[gridBbox |-> Box(Scene.y0, Scene.x0, Scene.y0 + Scene.cell * n, Scene.x0),
           cellDetections |-> [i \in 1..k |-> Transpose(LineDet(i - 1, <<7, 3>>))]] :
            n \in 0..MaxPartial, k \in 0..(MaxPartial + MaxExtra)}

MapScenes == CompleteScenes \cup PartialScenes \cup UnusableScenes

InitMap ==
    /\ IdleSolver
    /\ IdleShapes
    /\ IdleCluster
    /\ IdleDigit
    /\ \E sc \in MapScenes :
          /\ gridBbox = sc.gridBbox
          /\ cellDetections = sc.cellDetections
    /\ gridDims = <<>>
    /\ cellMap = <<>>
    /\ di = 0
    /\ mapResult = NotReturned
    /\ mapSteps = <<>>
    /\ mpc = "parse"

NextMap ==
    \/ ParseNoBox
    \/ ParseNoGrid
    \/ ParseGrid
    \/ Phase1Outside
    \/ Phase1Set
    \/ Phase1Keep
    \/ Phase2Return

SpecMap == InitMap /\ [][NextMap]_vars

(***************************************************************************)
(* MapParser properties                                                    *)
(***************************************************************************)
Ran(step) == \E i \in 1..Len(mapSteps) : mapSteps[i] = step

\* estimateGridSize has just returned
Estimated ==
    \/ mpc = "phase1" /\ di = 1
    \/ mpc = "done" /\ gridDims # <<>> /\ ~Ran("buildCellMap")

InBoxDetections == SelectSeq(cellDetections, LAMBDA d : InBox(d, gridBbox))

\* the centroid of d lies strictly inside cell (r, c) of the n x n partition
\* of the grid box
StrictlyInCell(d, n, r, c) ==
    LET x2 == d.box.x1 + d.box.x2 - 2 * gridBbox.x1
        y2 == d.box.y1 + d.box.y2 - 2 * gridBbox.y1
        w == gridBbox.x2 - gridBbox.x1
        h == gridBbox.y2 - gridBbox.y1
    IN  /\ 2 * c * w < n * x2 /\ n * x2 < 2 * (c + 1) * w
        /\ 2 * r * h < n * y2 /\ n * y2 < 2 * (r + 1) * h

\* the centroids in the box form a complete n x n lattice: n * n of them,
\* one strictly inside every cell
CompleteLattice(n) ==
    /\ gridBbox # null
    /\ \E inside \in {InBoxDetections} :
          /\ Len(inside) = n * n
          /\ \A r, c \in 0..(n - 1) :
                \E i \in 1..(n * n) : StrictlyInCell(inside[i], n, r, c)

\* the cells of the size x size partition that hold a centroid (a centroid
\* on a border belongs to the cell after it, one on the far edge to the last)
HitCells(size) ==
    LET w == gridBbox.x2 - gridBbox.x1
        h == gridBbox.y2 - gridBbox.y1
        hit(off2, ext, k) ==
            \/ 2 * k * ext <= size * off2 /\ size * off2 < 2 * (k + 1) * ext
            \/ k = size - 1 /\ off2 = 2 * ext
    IN  UNION {{rc \in (0..(size - 1)) \X (0..(size - 1)) :
                  \E i \in 1..Len(inside) :
                     /\ hit(inside[i].box.x1 + inside[i].box.x2 - 2 * gridBbox.x1, w, rc[2])
                     /\ hit(inside[i].box.y1 + inside[i].box.y2 - 2 * gridBbox.y1, h, rc[1])} :
               inside \in {InBoxDetections}}

\* C11: when the centroids inside the grid box form a complete N x N
\* lattice of cell centres, N in 3..9, the estimated size is rows = cols = N;
\* and a square size is accepted by the size loop only if the number of
\* detections with a centroid in the box is within max(2, 15% of size^2) of
\* size^2 and at least 70% of the size x size cells hold a centroid.
C11_LatticeSize ==
    Estimated =>
        /\ \A n \in 3..9 :
              CompleteLattice(n) => gridDims = [numRow |-> n, numCol |-> n]
        /\ (gridDims.numRow # 0 /\ ~Ran("estimateFromSpacing")) =>
              LET size == gridDims.numRow
                  nCells == Len(InBoxDetections)
              IN  /\ gridDims.numCol = size
                  /\ size \in 3..9
                  /\ 100 * Abs(nCells - size * size)
                        <= Max2(200, 15 * size * size)
                  /\ 10 * Cardinality(HitCells(size)) >= 7 * size * size

\* the spec's case: 25 detections on a 5 x 5 lattice, off the cell centres,
\* resolved to 5 x 5
C11_Witness ==
    /\ mpc = "done"
    /\ CompleteLattice(5)
    /\ Len(cellDetections) = 25
    /\ cellDetections[1].box.x1 # gridBbox.x1 + 1
    /\ mapResult.num_row = 5 /\ mapResult.num_col = 5

\* phase 1 of buildCellMap is over
Phase1Done == (mpc = "phase1" /\ di > Len(cellDetections)) \/ (mpc = "done" /\ Ran("buildCellMap"))

\* the indices of the detections that map to a key, in input order
HittingKey(key) ==
    {i \in 1..Len(cellDetections) :
        /\ InBox(cellDetections[i], gridBbox)
        /\ KeyOf(cellDetections[i], gridBbox, gridDims.numRow, gridDims.numCol) = key}

Phase1Keys == UNION {{KeyOf(cellDetections[i], gridBbox, gridDims.numRow, gridDims.numCol)} :
                        i \in {i \in 1..Len(cellDetections) : InBox(cellDetections[i], gridBbox)}}

\* C12 as stated: when two detections map to the same cell, its code comes
\* from the one whose confidence is > 0.5 if exactly one of them is, and
\* from the later one when neither or both exceed 0.5.
C12_TieLaterWins ==
    Phase1Done =>
        \A key \in Phase1Keys :
            \E hits \in {HittingKey(key)} :
                Cardinality(hits) = 2 =>
                    LET first == cellDetections[SetMin(hits)]
                        later == cellDetections[SetMax(hits)]
                    IN  cellMap[key].code =
                            IF first.conf > 5 /\ ~(later.conf > 5)
                            THEN CodeOf(first) ELSE CodeOf(later)

\* C12, amended: a later detection replaces the cell's entry iff its
\* confidence is > 0.5; so of the detections that map to a cell, the last
\* one that is the first of them or has confidence > 0.5 gives the code:
\* of two, the later when it exceeds 0.5 (whether or not the earlier does),
\* the earlier when the later does not (also at exactly 0.5).
C12_LaterWinsIffConfident ==
    Phase1Done =>
        \A key \in Phase1Keys :
            \E hits \in {HittingKey(key)} :
                LET winners == {i \in hits : i = SetMin(hits) \/ cellDetections[i].conf > 5}
                IN  /\ key \in DOMAIN cellMap
                    /\ cellMap[key].code = CodeOf(cellDetections[SetMax(winners)])
                    /\ cellMap[key].source = "yolo"

\* a cell two detections map to, neither above 0.5 and the later at exactly
\* 0.5: the cell has the code of the earlier, which is not that of the later
C12_Witness ==
    /\ mpc = "done"
    /\ Ran("buildCellMap")
    /\ \E key \in Phase1Keys :
          \E hits \in {HittingKey(key)} :
              /\ Cardinality(hits) = 2
              /\ cellDetections[SetMin(hits)].conf < 5
              /\ cellDetections[SetMax(hits)].conf = 5
              /\ CodeOf(cellDetections[SetMin(hits)]) # CodeOf(cellDetections[SetMax(hits)])
              /\ cellMap[key].code = CodeOf(cellDetections[SetMin(hits)])
              /\ mapResult.map[key[1] + 1][key[2] + 1] = CodeOf(cellDetections[SetMin(hits)])

\* a grid box that is missing or has no area
UnusableBox == gridBbox = null \/ gridBbox.x2 = gridBbox.x1 \/ gridBbox.y2 = gridBbox.y1

\* C13 as stated: with a missing or zero-area grid box, parse returns the
\* empty result (num_row = 0, num_col = 0, empty map, no cells) whatever the
\* detections, and no size estimation or cell classification step runs.
C13_UnusableBoxShortCircuits ==
    (mpc = "done" /\ UnusableBox) =>
        /\ mapResult.num_row = 0 /\ mapResult.num_col = 0
        /\ mapResult.map = <<>> /\ mapResult.cells = <<>>
        /\ mapSteps = <<>>

(***************************************************************************)
(* ConstraintParser.clusterByX (core/constraintParser.ts)                  *)
(*                                                                         *)
(* An item is [id, cx], cx in px.  The threshold is kept tenfold so that   *)
(* 0.8 * minGap and (minGap + maxGap) / 2 are whole numbers.               *)
(***************************************************************************)
RECURSIVE SortByCx(_)

\* [...items].sort((a, b) => a.cx - b.cx): stable
SortByCx(a) ==
    IF a = <<>> THEN <<>>
    ELSE LET k == CHOOSE k \in 1..Len(a) :
                      /\ \A j \in 1..Len(a) : a[k].cx <= a[j].cx
                      /\ \A j \in 1..(k - 1) : a[j].cx # a[k].cx
         IN  <<a[k]>> \o SortByCx([j \in 1..(Len(a) - 1) |->
                                      IF j < k THEN a[j] ELSE a[j + 1]])

\* a mutant: the threshold is always the mean of the extreme gaps
Threshold10Mean(minGap, maxGap) == 5 * (minGap + maxGap)

\* ten times the threshold:
\* maxGap > minGap * 1.3 ? (minGap + maxGap) / 2 : minGap * 0.8
Threshold10(minGap, maxGap) ==
    IF 10 * maxGap > 13 * minGap THEN 5 * (minGap + maxGap) ELSE 8 * minGap

RECURSIVE SplitAt(_, _, _, _, _)

\* the loop over sorted[i], i from 1: groups closed so far, the current group
SplitAt(sorted, i, closed, currentGroup, threshold10) ==
    IF i > Len(sorted)
    THEN (IF Len(currentGroup) > 0 THEN Append(closed, currentGroup) ELSE closed)
    ELSE IF 10 * (sorted[i].cx - sorted[i - 1].cx) > threshold10
    THEN SplitAt(sorted, i + 1, Append(closed, currentGroup), <<sorted[i]>>, threshold10)
    ELSE SplitAt(sorted, i + 1, closed, Append(currentGroup, sorted[i]), threshold10)

clusterByX(its) ==
    IF Len(its) = 0 THEN <<>>
    ELSE IF Len(its) = 1 THEN <<its>>
    ELSE LET sorted == SortByCx(its)
             gaps == [i \in 1..(Len(sorted) - 1) |-> sorted[i + 1].cx - sorted[i].cx]
             significant == SelectSeq(gaps, LAMBDA g : g > 5)
         IN  IF Len(significant) = 0 THEN <<sorted>>
             ELSE LET sortedGaps == SortInts(significant)
                      minGap == sortedGaps[1]
                      maxGap == sortedGaps[Len(sortedGaps)]
                  IN  SplitAt(sorted, 2, <<>>, <<sorted[1]>>,
                              Threshold10(minGap, maxGap))

\* the centroids the items are drawn from, in px
CentroidValues == {10, 12, 14, 15, 21, 40, 42}

\* the lists of n items
ItemLists(n) ==
    {[i \in 1..n |-> [id |-> i, cx |-> xs[i]]] : xs \in [1..n -> CentroidValues]}

InitCluster ==
    /\ IdleSolver
    /\ IdleShapes
    /\ IdleMap
    /\ IdleDigit
    /\ \E n \in 0..MaxItems : clusterItems \in ItemLists(n)
    /\ clusterGroups = <<>>
    /\ kpc = "input"

ClusterByX ==
    /\ kpc = "input"
    /\ clusterGroups' = clusterByX(clusterItems)
    /\ kpc' = "clustered"
    /\ UNCHANGED <<clusterItems, solverVars, shapeVars, mapVars, digitVars>>

NextCluster == ClusterByX

SpecCluster == InitCluster /\ [][NextCluster]_vars

(***************************************************************************)
(* clusterByX properties                                                   *)
(***************************************************************************)
RECURSIVE Flatten(_)

Flatten(gs) == IF gs = <<>> THEN <<>> ELSE Head(gs) \o Flatten(Tail(gs))

\* the positions of the flattened list after which a group ends and another
\* begins
GroupEnds(gs) ==
    {Len(Flatten(SubSeq(gs, 1, n))) : n \in 1..(Len(gs) - 1)}

\* gap exceeds T, where over the gaps larger than 5 px T = (min + max) / 2
\* if max > 1.3 x min and T = 0.8 x min otherwise
ExceedsT(gap, large) ==
    /\ large # {}
    /\ LET min == SetMin(large)
           max == SetMax(large)
       IN  IF 10 * max > 13 * min THEN 2 * gap > min + max
           ELSE 10 * gap > 8 * min

\* C14: clusterByX sorts the items by centroid and splits between the
\* neighbours whose gap exceeds T, T = (min + max) / 2 if max > 1.3 x min and
\* 0.8 x min otherwise over the gaps larger than 5 px (no such gap, no
\* split); every input item is in exactly one cluster, clusters are non-empty
\* and in left-to-right order; centroids [10, 12, 14, 40, 42] give exactly
\* two clusters, of sizes 3 and 2.
C14_ClusterByX ==
    kpc = "clustered" =>
        \E flat \in {Flatten(clusterGroups)} :
            LET n == Len(clusterItems)
                large == {flat[i + 1].cx - flat[i].cx : i \in 1..(n - 1)}
                            \cap {g \in 0..100 : g > 5}
            IN  /\ Len(flat) = n
                /\ {flat[i].id : i \in 1..n} = 1..n
                /\ \A i \in 1..n : flat[i] = clusterItems[flat[i].id]
                /\ \A g \in 1..Len(clusterGroups) : Len(clusterGroups[g]) > 0
                /\ \A i \in 1..(n - 1) : flat[i].cx <= flat[i + 1].cx
                /\ \A i \in 1..(n - 1) :
                      (i \in GroupEnds(clusterGroups))
                          <=> ExceedsT(flat[i + 1].cx - flat[i].cx, large)
                /\ [i \in 1..n |-> clusterItems[i].cx] = <<10, 12, 14, 40, 42>>
                      => /\ Len(clusterGroups) = 2
                         /\ Len(clusterGroups[1]) = 3
                         /\ Len(clusterGroups[2]) = 2

\* the spec's case, given out of order: two clusters, 10 12 14 and 40 42
C14_Witness ==
    /\ kpc = "clustered"
    /\ [i \in 1..Len(clusterItems) |-> clusterItems[i].cx] = <<40, 10, 14, 42, 12>>
    /\ [g \in 1..Len(clusterGroups) |->
           [i \in 1..Len(clusterGroups[g]) |-> clusterGroups[g][i].cx]]
         = << <<10, 12, 14>>, <<40, 42>> >>

(***************************************************************************)
(* recognizeDigit (core/digitRecognizer.ts).  The sources hold two modules *)
(* of that name: the Tesseract one, whose answer 6 is checked by           *)
(* isZeroByShape, and the neural-network one, which hands the mask to      *)
(* recognizeDigitNN (core/digitNN.ts).  A mask is the Uint8Array of the    *)
(* source, element idx of it being mask[idx + 1].                          *)
(***************************************************************************)
\* the mask of a glyph drawn as rows of 0 and 1 (foreground = 255)
GlyphFrame(rows, rotated) ==
    [mask |-> [i \in 1..(Len(rows) * Len(rows[1])) |->
                  255 * rows[((i - 1) \div Len(rows[1])) + 1]
                            [((i - 1) % Len(rows[1])) + 1]],
     width |-> Len(rows[1]),
     height |-> Len(rows),
     rotated |-> rotated]

\* recognizeDigit, "Find content bounds": the columns and rows with content
ContentXs(g) ==
    {x \in 0..(g.width - 1) :
        \E y \in 0..(g.height - 1) : g.mask[y * g.width + x + 1] > 0}

ContentYs(g) ==
    {y \in 0..(g.height - 1) :
        \E x \in 0..(g.width - 1) : g.mask[y * g.width + x + 1] > 0}

\* recognizeDigit: croppedMask, then shapeMask / finalMask (rotated 90
\* degrees clockwise, (dx, dy) -> (h - 1 - dy, dx), when `rotated`)
ShapeMask(g) ==
    LET minX == SetMin(ContentXs(g))
        minY == SetMin(ContentYs(g))
        w == SetMax(ContentXs(g)) - minX + 1
        h == SetMax(ContentYs(g)) - minY + 1
        cropped == [i \in 1..(w * h) |->
                       g.mask[(minY + ((i - 1) \div w)) * g.width
                              + (minX + ((i - 1) % w)) + 1]]
    IN  IF g.rotated
        THEN [mask |-> [i \in 1..(w * h) |->
                           \* pixel (newX, newY) of the h x w result comes
                           \* from dx = newY, dy = h - 1 - newX
                           LET newX == (i - 1) % h
                               newY == (i - 1) \div h
                           IN  cropped[(h - 1 - newX) * w + newY + 1]],
              width |-> h, height |-> w]
        ELSE [mask |-> cropped, width |-> w, height |-> h]

\* recognizeDigit returns 0 before asking the backend: no frame, no content
\* or content narrower or lower than 3 px
TooSmall(g) ==
    \/ g.width = 0 \/ g.height = 0
    \/ ContentXs(g) = {}
    \/ SetMax(ContentXs(g)) - SetMin(ContentXs(g)) + 1 < 3
    \/ SetMax(ContentYs(g)) - SetMin(ContentYs(g)) + 1 < 3

\* isZeroByShape: the background pixels on the border of the mask
BorderBackground(mask, width, height) ==
    {idx \in 0..(width * height - 1) :
        /\ mask[idx + 1] = 0
        /\ \/ idx % width = 0 \/ idx % width = width - 1
           \/ idx \div width = 0 \/ idx \div width = height - 1}

\* isZeroByShape: the 4-neighbours of pixel idx inside the mask
Neighbors(idx, width, height) ==
    LET x == idx % width
        y == (idx - x) \div width
    IN  (IF y > 0 THEN {idx - width} ELSE {})
        \cup (IF y < height - 1 THEN {idx + width} ELSE {})
        \cup (IF x > 0 THEN {idx - 1} ELSE {})
        \cup (IF x < width - 1 THEN {idx + 1} ELSE {})

RECURSIVE FloodFill(_, _, _, _, _)

\* isZeroByShape: the breadth-first fill from the border; `visited` is the
\* set of pixels marked, `queue` those marked and not yet expanded
FloodFill(mask, width, height, visited, queue) ==
    IF queue = {} THEN visited
    ELSE LET next == {n \in UNION {Neighbors(idx, width, height) : idx \in queue} :
                         n \notin visited /\ mask[n + 1] = 0}
         IN  FloodFill(mask, width, height, visited \cup next, next)

\* isZeroByShape: holePixels
HolePixels(mask, width, height) ==
    LET border == BorderBackground(mask, width, height)
        visited == FloodFill(mask, width, height, border, border)
    IN  Cardinality({i \in 0..(width * height - 1) :
                        mask[i + 1] = 0 /\ i \notin visited})

\* isZeroByShape: the pairs (y, dx) compared across midX and those that match
SymmetryPairs(width, height) ==
    LET midX == width \div 2
        minW == Min2(midX, width - midX)
    IN  (0..(height - 1)) \X (0..(minW - 1))

MatchingPairs(mask, width, height) ==
    LET midX == width \div 2
    IN  {p \in SymmetryPairs(width, height) :
            (mask[p[1] * width + (midX - 1 - p[2]) + 1] > 0)
                = (mask[p[1] * width + (midX + p[2]) + 1] > 0)}

\* isZeroByShape: hasHole = holePixels > 10, then symmetry > 0.5 with
\* symmetry = matchCount / totalCount (0 when totalCount = 0)
isZeroByShape(mask, width, height) ==
    /\ width # 0 /\ height # 0
    /\ HolePixels(mask, width, height) > 10
    /\ 2 * Cardinality(MatchingPairs(mask, width, height))
          > Cardinality(SymmetryPairs(width, height))

\* heuristicRecognize; the ratios are compared as exact fractions
\* (fillRatio = total / (w * h), centerRatio = center / total,
\* topRatio = topHalf / total, aspect = w / h)
heuristicRecognize(mask, w, h) ==
    LET fg == {i \in 0..(w * h - 1) : mask[i + 1] > 0}
        total == Cardinality(fg)
        topHalf == Cardinality({i \in fg : 2 * (i \div w) < h})
        center == Cardinality({i \in fg :
                      /\ 10 * (i % w) > 3 * w /\ 10 * (i % w) < 7 * w
                      /\ 10 * (i \div w) > 3 * h /\ 10 * (i \div w) < 7 * h})
        rectArea == w * h
    IN  IF total = 0 THEN 0
        ELSE IF isZeroByShape(mask, w, h) THEN 0
        ELSE IF 2 * w < h /\ 2 * total < rectArea THEN 1
        ELSE IF /\ 10 * center < total
                /\ 20 * Abs(2 * topHalf - total) < 6 * total THEN 0
        ELSE IF 100 * total > 35 * rectArea /\ 100 * topHalf > 55 * total THEN 4
        ELSE IF 100 * total > 35 * rectArea /\ 100 * topHalf < 45 * total THEN 5
        ELSE IF 10 * total > 3 * rectArea /\ 10 * center > total THEN 3
        ELSE 2

\* what the neural network answers for a mask: a class 0..9, or the -1 of
\* recognizeDigitNN when the inference fails
NNAnswers == [kind : {"class"}, class : (0..9) \cup {-1}]

\* recognizeDigit of the neural-network module: the answer of
\* recognizeDigitNN, or 0 when it is negative
recognizeDigit(g, nnResult) ==
    IF TooSmall(g) THEN 0
    ELSE IF nnResult.class >= 0 THEN nnResult.class ELSE 0

\* the texts a Tesseract worker answers (after trim), character by character
OcrTexts == {<<>>, <<"6">>, <<"O">>, <<"3">>, <<"0">>, <<"x", "6">>,
             <<"3", "6">>, <<"x">>}

\* what the two OCR workers do: both answer a text, initWorkers throws,
\* or the first or the second recognize call throws
OcrAnswers ==
    [kind : {"text"}, psm6 : OcrTexts, psm10 : OcrTexts]
        \cup [kind : {"initThrows", "psm6Throws"}, psm6 : {<<>>}, psm10 : {<<>>}]
        \cup [kind : {"psm10Throws"}, psm6 : OcrTexts, psm10 : {<<>>}]

\* the characters of a text that end the loop of recognizeDigit: a digit
\* or the letter O
IsDigitChar(c) == c \in {"0", "1", "2", "3", "4", "5", "6", "7", "8", "9"}

ParseInt(c) ==
    CASE c = "0" -> 0 [] c = "1" -> 1 [] c = "2" -> 2 [] c = "3" -> 3
      [] c = "4" -> 4 [] c = "5" -> 5 [] c = "6" -> 6 [] c = "7" -> 7
      [] c = "8" -> 8 [] c = "9" -> 9

\* the first digit or O of a text, or "none"
FirstHit(text) ==
    LET hits == {i \in 1..Len(text) : IsDigitChar(text[i]) \/ text[i] = "O"}
    IN  IF hits = {} THEN "none" ELSE text[SetMin(hits)]

\* the texts recognizeDigit reads, in order, before a throw or the end
TextsRead(a) ==
    CASE a.kind = "text" -> <<a.psm6, a.psm10>>
      [] a.kind = "psm10Throws" -> <<a.psm6>>
      [] OTHER -> <<>>

\* the character that decides the value: the first hit of the first text
\* that has one
DecidingChar(a) ==
    LET texts == TextsRead(a)
        hit == {i \in 1..Len(texts) : FirstHit(texts[i]) # "none"}
    IN  IF hit = {} THEN "none" ELSE FirstHit(texts[SetMin(hit)])

\* recognizeDigit of the Tesseract module
recognizeDigitTesseract(g, a) ==
    IF TooSmall(g) THEN 0
    ELSE LET s == ShapeMask(g)
             c == DecidingChar(a)
         IN  IF c = "none" THEN heuristicRecognize(s.mask, s.width, s.height)
             ELSE IF c = "O" THEN 0
             ELSE IF ParseInt(c) = 6 /\ isZeroByShape(s.mask, s.width, s.height)
                  THEN 0
             ELSE ParseInt(c)

\* the glyphs: rings (outline of a w x h rectangle), drawn glyphs, a glyph
\* inside a larger frame
RingRows(w, h) ==
    [y \in 1..h |-> [x \in 1..w |->
        IF x = 1 \/ x = w \/ y = 1 \/ y = h THEN 1 ELSE 0]]

PadRows(rows, left, top) ==
    [y \in 1..(Len(rows) + top + 1) |-> [x \in 1..(Len(rows[1]) + left + 1) |->
        IF /\ y > top /\ y <= top + Len(rows)
           /\ x > left /\ x <= left + Len(rows[1])
        THEN rows[y - top][x - left] ELSE 0]]

\* a six: stem and open top, closed loop below
SixRows ==
    << <<0, 1, 1, 1, 0>>,
       <<1, 0, 0, 0, 0>>,
       <<1, 0, 0, 0, 0>>,
       <<1, 1, 1, 1, 0>>,
       <<1, 0, 0, 0, 1>>,
       <<1, 0, 0, 0, 1>>,
       <<1, 0, 0, 0, 1>>,
       <<1, 0, 0, 0, 1>>,
       <<0, 1, 1, 1, 0>> >>

\* a heavy glyph whose only hole is in its bottom-right part
BottomRightHoleRows ==
    << <<1, 1, 1, 1, 0, 0, 0, 0>>,
       <<1, 1, 1, 1, 0, 0, 0, 0>>,
       <<1, 1, 1, 1, 1, 1, 1, 1>>,
       <<1, 1, 1, 1, 0, 0, 0, 1>>,
       <<1, 1, 1, 1, 0, 0, 0, 1>>,
       <<1, 1, 1, 1, 0, 0, 0, 1>>,
       <<1, 1, 1, 1, 0, 0, 0, 1>>,
       <<1, 1, 1, 1, 1, 1, 1, 1>> >>

\* a bar, a seven, a dot of 2 x 2 and an empty frame
BarRows == [y \in 1..7 |-> <<1, 1, 1>>]

SevenRows ==
    << <<1, 1, 1, 1>>,
       <<0, 0, 0, 1>>,
       <<0, 0, 1, 0>>,
       <<0, 0, 1, 0>>,
       <<0, 1, 0, 0>>,
       <<0, 1, 0, 0>> >>

DotRows == << <<0, 0, 0, 0>>, <<0, 1, 1, 0>>, <<0, 1, 1, 0>>, <<0, 0, 0, 0>> >>

EmptyRows == << <<0, 0, 0>>, <<0, 0, 0>>, <<0, 0, 0>> >>

GlyphRows ==
    {RingRows(5, 6), RingRows(6, 6), RingRows(3, 13), RingRows(4, 4),
     RingRows(6, 4), PadRows(RingRows(6, 6), 1, 2), SixRows,
     BottomRightHoleRows, BarRows, SevenRows, DotRows, EmptyRows}

Glyphs == {GlyphFrame(rows, rotated) : rows \in GlyphRows, rotated \in BOOLEAN}

InitGlyph ==
    /\ IdleParser
    /\ IdleSolver
    /\ IdleShapes
    /\ IdleMap
    /\ IdleCluster
    /\ IdleBackend
    /\ IdleStrip
    /\ IdleAnalyzers
    /\ glyph \in Glyphs
    /\ recognizer = "none"
    /\ answer = NoAnswer
    /\ digit = "none"
    /\ gpc = "input"

\* recognizeDigit of the neural-network module, with the answer of
\* recognizeDigitNN (not asked for a glyph that is too small)
RecognizeDigit ==
    /\ gpc = "input"
    /\ \E nnResult \in IF TooSmall(glyph) THEN {NoAnswer} ELSE NNAnswers :
          /\ answer' = nnResult
          /\ digit' = recognizeDigit(glyph, nnResult)
    /\ recognizer' = "digitNN"
    /\ gpc' = "recognized"
    /\ UNCHANGED <<glyph, solverVars, shapeVars, mapVars, clusterVars, backendVars,
                   stripVars, analyzerVars, parserVars>>

\* recognizeDigit of the Tesseract module, with the answers of its workers
RecognizeDigitTesseract ==
    /\ gpc = "input"
    /\ \E a \in IF TooSmall(glyph) THEN {NoAnswer} ELSE OcrAnswers :
          /\ answer' = a
          /\ digit' = recognizeDigitTesseract(glyph, a)
    /\ recognizer' = "tesseract"
    /\ gpc' = "recognized"
    /\ UNCHANGED <<glyph, solverVars, shapeVars, mapVars, clusterVars, backendVars,
                   stripVars, analyzerVars, parserVars>>

NextGlyph == RecognizeDigit \/ RecognizeDigitTesseract

SpecGlyph == InitGlyph /\ [][NextGlyph]_vars

(***************************************************************************)
(* recognizeDigit properties                                               *)
(***************************************************************************)
\* the backend was asked and answered the digit 6 for the glyph
AnsweredSix ==
    /\ gpc = "recognized"
    /\ answer # NoAnswer
    /\ \/ recognizer = "digitNN" /\ answer.class = 6
       \/ recognizer = "tesseract" /\ DecidingChar(answer) = "6"

\* more than 10 enclosed background pixels and more than half of the pixel
\* pairs mirrored across the vertical midline equal, in the upright glyph
ZeroShaped(g) ==
    \E s \in {ShapeMask(g)} : isZeroByShape(s.mask, s.width, s.height)

\* C15: a glyph the recognition backend answers 6 gets the value 0 iff its
\* mask has more than 10 hole pixels and more than half of its mirrored
\* pixel pairs match, and the value 6 otherwise; so the symmetric ring with
\* a hole becomes 0 and the glyph whose only hole is bottom-right stays 6.
C15_SixCorrectedByShape ==
    AnsweredSix =>
        /\ digit = IF ZeroShaped(glyph) THEN 0 ELSE 6
        /\ glyph = GlyphFrame(RingRows(6, 6), FALSE) => digit = 0
        /\ glyph = GlyphFrame(BottomRightHoleRows, FALSE) => digit = 6

(***************************************************************************)
(* The recognition backend handle (core/digitNN.ts): getDigitDetector,     *)
(* recognizeDigitNN under recognizeDigit, and disposeDigitModel, called by *)
(* concurrent async callers.  An action is the code one call runs between  *)
(* two awaits; the session creation and the inference are settled by the   *)
(* runtime, with either outcome.                                           *)
(***************************************************************************)
MaxCallers == 2

MaxCalls == 4

AsyncCallers == 1..MaxCallers

\* a caller with no call in progress; `call` numbers the calls (history)
IdleCaller == [op |-> "none", pc |-> "idle", promise |-> 0, handle |-> 0,
               value |-> -1, call |-> 0]

InitBackend ==
    /\ IdleParser
    /\ IdleSolver
    /\ IdleShapes
    /\ IdleMap
    /\ IdleCluster
    /\ IdleGlyph
    /\ IdleStrip
    /\ IdleAnalyzers
    /\ session = 0
    /\ initPromise = 0
    /\ promises = <<>>
    /\ callers = [t \in AsyncCallers |-> IdleCaller]
    /\ calls = 0
    /\ sessions = 0
    /\ teardowns = [calls |-> 0, removed |-> 0]

\* a caller may start a call when its previous one has settled
MayCall(t) ==
    /\ calls < MaxCalls
    /\ callers[t].pc \in {"idle", "resolved", "rejected"}

\* getDigitDetector up to its first await, for a call with no session:
\* await the initPromise there is, or start the initialisation (the async
\* function at lines 27-53 runs up to InferenceSession.create) and await it
EnterGetDigitDetector(t, op) ==
    IF initPromise # 0
    THEN /\ callers' = [callers EXCEPT ![t] =
                [op |-> op, pc |-> "awaitInit", promise |-> initPromise,
                 handle |-> 0, value |-> -1, call |-> calls + 1]]
         /\ UNCHANGED <<initPromise, promises, parserVars>>
    ELSE /\ promises' = Append(promises, "pending")
         /\ initPromise' = Len(promises) + 1
         /\ callers' = [callers EXCEPT ![t] =
                [op |-> op, pc |-> "awaitInit", promise |-> Len(promises) + 1,
                 handle |-> 0, value |-> -1, call |-> calls + 1]]

\* recognizeDigitNN from `if (!session) return -1` on: -1, which
\* recognizeDigit turns into 0, or session.run on the session there is
EnterInference(t, call) ==
    IF session = 0
    THEN callers' = [callers EXCEPT ![t] =
            [op |-> "recognizeDigit", pc |-> "resolved", promise |-> 0,
             handle |-> 0, value |-> 0, call |-> call]]
    ELSE callers' = [callers EXCEPT ![t] =
            [op |-> "recognizeDigit", pc |-> "running", promise |-> 0,
             handle |-> session, value |-> -1, call |-> call]]

\* a call of getDigitDetector
GetDigitDetector(t) ==
    /\ MayCall(t)
    /\ calls' = calls + 1
    /\ IF session # 0
       THEN /\ callers' = [callers EXCEPT ![t] =
                   [op |-> "getDigitDetector", pc |-> "resolved",
                    promise |-> 0, handle |-> 0, value |-> -1,
                    call |-> calls + 1]]
            /\ UNCHANGED <<initPromise, promises, parserVars>>
       ELSE EnterGetDigitDetector(t, "getDigitDetector")
    /\ UNCHANGED <<session, sessions, teardowns, solverVars, shapeVars, mapVars,
                   clusterVars, glyphVars, stripVars, analyzerVars, parserVars>>

\* a call of recognizeDigit with a glyph of 3 x 3 px or more: it calls
\* recognizeDigitNN, which calls getDigitDetector when there is no session
RecognizeDigitNN(t) ==
    /\ MayCall(t)
    /\ calls' = calls + 1
    /\ IF session = 0
       THEN EnterGetDigitDetector(t, "recognizeDigit")
       ELSE EnterInference(t, calls + 1) /\ UNCHANGED <<initPromise, promises, parserVars>>
    /\ UNCHANGED <<session, sessions, teardowns, solverVars, shapeVars, mapVars,
                   clusterVars, glyphVars, stripVars, analyzerVars, parserVars>>

\* a call of disposeDigitModel: it has no await
DisposeDigitModel(t) ==
    /\ MayCall(t)
    /\ calls' = calls + 1
    /\ callers' = [callers EXCEPT ![t] =
           [op |-> "disposeDigitModel", pc |-> "resolved", promise |-> 0,
            handle |-> 0, value |-> -1, call |-> calls + 1]]
    /\ IF session # 0
       THEN session' = 0 /\ initPromise' = 0
       ELSE UNCHANGED <<session, initPromise, parserVars>>
    /\ teardowns' = [calls |-> teardowns.calls + 1,
                     removed |-> teardowns.removed
                                    + (IF session # 0 THEN 1 ELSE 0)]
    /\ UNCHANGED <<promises, sessions, solverVars, shapeVars, mapVars,
                   clusterVars, glyphVars, stripVars, analyzerVars, parserVars>>

\* InferenceSession.create resolves: the initialisation assigns the new
\* session and its promise is fulfilled
InitResolves(p) ==
    /\ promises[p] = "pending"
    /\ sessions' = sessions + 1
    /\ session' = sessions + 1
    /\ promises' = [promises EXCEPT ![p] = "fulfilled"]
    /\ UNCHANGED <<initPromise, callers, calls, teardowns, solverVars, shapeVars,
                   mapVars, clusterVars, glyphVars, stripVars, analyzerVars, parserVars>>

\* loading the model throws: the initialisation logs and rethrows, its
\* promise is rejected
InitRejects(p) ==
    /\ promises[p] = "pending"
    /\ promises' = [promises EXCEPT ![p] = "rejected"]
    /\ UNCHANGED <<session, initPromise, callers, calls, sessions, teardowns,
                   solverVars,
                   shapeVars, mapVars, clusterVars, glyphVars, stripVars, analyzerVars, parserVars>>

\* a call resumes from `await initPromise` in getDigitDetector: a rejection
\* passes through getDigitDetector and, not being inside the try of
\* recognizeDigitNN, through recognizeDigitNN and recognizeDigit
AfterInit(t) ==
    /\ callers[t].pc = "awaitInit"
    /\ promises[callers[t].promise] # "pending"
    /\ IF promises[callers[t].promise] = "rejected"
       THEN callers' = [callers EXCEPT ![t].pc = "rejected"]
       ELSE IF callers[t].op = "getDigitDetector"
            THEN callers' = [callers EXCEPT ![t].pc = "resolved"]
            ELSE EnterInference(t, callers[t].call)
    /\ UNCHANGED <<session, initPromise, promises, calls, sessions, teardowns,
                   solverVars, shapeVars, mapVars, clusterVars, glyphVars, stripVars, analyzerVars, parserVars>>

\* session.run resolves: recognizeDigitNN returns the class of the largest
\* output and recognizeDigit returns it
RunResolves(t) ==
    /\ callers[t].pc = "running"
    /\ \E class \in {0, 6, 9} :
          callers' = [callers EXCEPT ![t].pc = "resolved", ![t].value = class]
    /\ UNCHANGED <<session, initPromise, promises, calls, sessions, teardowns,
                   solverVars, shapeVars, mapVars, clusterVars, glyphVars, stripVars, analyzerVars, parserVars>>

\* session.run (or the preprocessing) throws: recognizeDigitNN catches and
\* returns -1, recognizeDigit returns 0
RunRejects(t) ==
    /\ callers[t].pc = "running"
    /\ callers' = [callers EXCEPT ![t].pc = "resolved", ![t].value = 0,
                                  ![t].handle = -1]
    /\ UNCHANGED <<session, initPromise, promises, calls, sessions, teardowns,
                   solverVars, shapeVars, mapVars, clusterVars, glyphVars, stripVars, analyzerVars, parserVars>>

NextBackend ==
    \/ \E t \in AsyncCallers : GetDigitDetector(t)
    \/ \E t \in AsyncCallers : RecognizeDigitNN(t)
    \/ \E t \in AsyncCallers : DisposeDigitModel(t)
    \/ \E p \in 1..Len(promises) : InitResolves(p)
    \/ \E p \in 1..Len(promises) : InitRejects(p)
    \/ \E t \in AsyncCallers : AfterInit(t)
    \/ \E t \in AsyncCallers : RunResolves(t)
    \/ \E t \in AsyncCallers : RunRejects(t)

SpecBackend == InitBackend /\ [][NextBackend]_vars

(***************************************************************************)
(* Recognition backend properties                                          *)
(***************************************************************************)
\* C16: when the recognition backend fails, recognizeDigit still resolves
\* to a digit: a call whose model initialisation failed or whose inference
\* threw is never rejected, and once settled it has a value in 0..9.
C16_FailureGivesSentinel ==
    \A t \in AsyncCallers :
        callers[t].op = "recognizeDigit" =>
            /\ callers[t].pc # "rejected"
            /\ callers[t].pc = "resolved" => callers[t].value \in 0..9

\* the step is a call of disposeDigitModel by caller t
IsDispose(t) ==
    /\ calls' = calls + 1
    /\ callers'[t].call = calls'
    /\ callers'[t].op = "disposeDigitModel"

\* the step is a use by caller t: a call of recognizeDigit or of
\* getDigitDetector
IsUse(t) ==
    /\ calls' = calls + 1
    /\ callers'[t].call = calls'
    /\ callers'[t].op \in {"recognizeDigit", "getDigitDetector"}

\* at most one initialisation is started, and one session created, per
\* teardown that removed a session, plus one; the calls that wait for the
\* initialisation all wait for the same one
CreatedOncePerTeardown ==
    /\ Len(promises) <= teardowns.removed + 1
    /\ sessions <= teardowns.removed + 1
    /\ \A t \in AsyncCallers :
          callers[t].pc = "awaitInit" /\ promises[callers[t].promise] = "pending"
              => callers[t].promise = initPromise

\* a teardown resolves, leaves no session, and changes nothing when there
\* was no session (so a second teardown, or one without handle, has no
\* effect)
TeardownIdempotent ==
    \A t \in AsyncCallers :
        IsDispose(t) =>
            /\ callers'[t].pc = "resolved"
            /\ session' = 0
            /\ session = 0 =>
                 UNCHANGED <<session, initPromise, promises, sessions, parserVars>>

\* a use made after a teardown, when there is no session, starts an
\* initialisation or joins the one in flight
UseAfterTeardownCreates ==
    \A t \in AsyncCallers :
        IsUse(t) /\ teardowns.calls > 0 /\ session = 0 =>
            /\ initPromise' # 0
            /\ promises'[initPromise'] = "pending"
            /\ callers'[t].promise = initPromise'

\* C18: in every interleaving of recognition, initialisation and teardown
\* calls the backend handle is created at most once until it is torn down,
\* concurrent first uses sharing one initialisation; teardown is
\* idempotent and raises nothing; a use after teardown lazily creates a
\* fresh handle.
C18_HandleLifecycle ==
    /\ []CreatedOncePerTeardown
    /\ [][TeardownIdempotent /\ UseAfterTeardownCreates]_vars

(***************************************************************************)
(* ConstraintParser.parseNumbers and parseDualDigitGroup                   *)
(* (core/constraintParser.ts).  An element is [id, cx, type, color, area]; *)
(* id is its index in the unsorted allElements (history).  An action is    *)
(* the code parseNumbers runs between two awaits of recognizeDigit; the    *)
(* recognition backend resolves a call in a step of its own.               *)
(***************************************************************************)
MaxGlyphs == 3

\* PieceParser.parse: the most rows of tiles of a panel
MaxPanelRows == 3

\* the elements a strip is drawn from: digits of the two colors and zeros
ElementChoices ==
    {[cx |-> 10, type |-> "digit", color |-> "GN", area |-> 300],
     [cx |-> 14, type |-> "digit", color |-> "GN", area |-> 500],
     [cx |-> 60, type |-> "digit", color |-> "GN", area |-> 300],
     [cx |-> 10, type |-> "digit", color |-> "BL", area |-> 500],
     [cx |-> 14, type |-> "digit", color |-> "BL", area |-> 300],
     [cx |-> 60, type |-> "digit", color |-> "BL", area |-> 500],
     [cx |-> 12, type |-> "zero", color |-> "none", area |-> 300],
     [cx |-> 60, type |-> "zero", color |-> "none", area |-> 300]}

\* the values the recognition backend resolves a call to
DigitValues == {3, 7}

\* clusterDualDigits; ten times the threshold:
\* maxGap > minGap * 1.15 ? (minGap + maxGap) / 2 : minGap * 0.5
clusterDualDigits(digits) ==
    IF Len(digits) < 2 THEN (IF Len(digits) > 0 THEN <<digits>> ELSE <<>>)
    ELSE LET sorted == SortByCx(digits)
             gaps == [i \in 1..(Len(sorted) - 1) |-> sorted[i + 1].cx - sorted[i].cx]
             significant == SelectSeq(gaps, LAMBDA g : g > 10)
         IN  IF Len(significant) = 0 THEN <<sorted>>
             ELSE LET sortedGaps == SortInts(significant)
                      minGap == sortedGaps[1]
                      maxGap == sortedGaps[Len(sortedGaps)]
                  IN  SplitAt(sorted, 2, <<>>, <<sorted[1]>>,
                              IF 100 * maxGap > 115 * minGap
                              THEN 5 * (minGap + maxGap) ELSE 5 * minGap)

\* parseNumbers: allElements before sorting or clustering, digits then
\* zeros; in dual-color mode a zero gets colors[0]
Numbered(elements) == [i \in 1..Len(elements) |-> [id |-> i] @@ elements[i]]

AllElements(colors, digits, zeros) ==
    Numbered(digits \o [i \in 1..Len(zeros) |->
        IF Len(colors) >= 2 THEN [zeros[i] EXCEPT !.color = colors[1]]
        ELSE zeros[i]])

\* a mutant: the elements are taken in the order they were found
SortElementsNot(elements) == elements

\* allElements.sort((a, b) => a.cx - b.cx)
SortElements(elements) == SortByCx(elements)

RECURSIVE ReduceLargest(_, _)

\* digitsOfColor.reduce((a, b) => a.area > b.area ? a : b)
ReduceLargest(a, rest) ==
    IF rest = <<>> THEN a
    ELSE ReduceLargest(IF a.area > Head(rest).area THEN a ELSE Head(rest),
                       Tail(rest))

\* no contour to recognize
NoDigit == [id |-> 0]

\* parseDualDigitGroup, one color of the loop: the contour to recognize
\* (main), or NoDigit when the value is 0 without recognition
MainDigit(group, color) ==
    LET digitsOfColor == SelectSeq(group, LAMBDA d : d.color = color)
        maxArea == SetMax({digitsOfColor[i].area : i \in 1..Len(digitsOfColor)})
        largest == IF Len(digitsOfColor) > 1
                   THEN SelectSeq(digitsOfColor, LAMBDA d : 2 * d.area > maxArea)
                   ELSE digitsOfColor
    IN  IF \E i \in 1..Len(digitsOfColor) : digitsOfColor[i].type = "zero"
        THEN NoDigit
        ELSE IF Len(digitsOfColor) = 0 THEN NoDigit
        ELSE IF Len(largest) = 0 THEN NoDigit
        ELSE ReduceLargest(Head(largest), Tail(largest))

\* a ConstraintValue; src is the id of the element it was recognized from
\* (history, 0 when it has none)
ConstraintValue(color, value, src) ==
    [color |-> color, value |-> value, satisfied |-> FALSE, src |-> src]

RECURSIVE RunSingle(_, _, _, _)

\* the single-color loop of parseNumbers from element i on, up to the next
\* await of recognizeDigitFromMask or to the return
RunSingle(color, elements, i, cs) ==
    IF i > Len(elements) THEN [pc |-> "returned", i |-> i, constraints |-> cs]
    ELSE IF elements[i].type = "zero"
    THEN RunSingle(color, elements, i + 1,
                   Append(cs, [values |-> <<ConstraintValue(color, 0, elements[i].id)>>]))
    ELSE [pc |-> "awaiting", i |-> i, constraints |-> cs]

RECURSIVE RunDual(_, _, _, _, _, _)

\* the dual-color loops of parseNumbers and parseDualDigitGroup from color
\* c of group g on, up to the next await or to the return
RunDual(colors, gs, g, c, vs, cs) ==
    IF g > Len(gs)
    THEN [pc |-> "returned", g |-> g, c |-> c, values |-> vs, constraints |-> cs]
    ELSE IF c > Len(colors)
    THEN RunDual(colors, gs, g + 1, 1, <<>>,
                 IF Len(vs) > 0 THEN Append(cs, [values |-> vs]) ELSE cs)
    ELSE IF MainDigit(gs[g], colors[c]).id = 0
    THEN RunDual(colors, gs, g, c + 1,
                 Append(vs, ConstraintValue(colors[c], 0, 0)), cs)
    ELSE [pc |-> "awaiting", g |-> g, c |-> c, values |-> vs, constraints |-> cs]

\* the element the loop awaits the recognition of
Awaited ==
    IF Len(stripColors) >= 2 THEN MainDigit(groups[ei], stripColors[ci])
    ELSE allElements[ei]

\* a recognizeDigit call for element e, not resolved yet
Request(e) == [elem |-> e.id, cx |-> e.cx, group |-> ei', color |-> ci',
               state |-> "pending", value |-> -1]

StripInputs ==
    UNION {[1..n -> ElementChoices] : n \in 0..MaxGlyphs}

InitStrip ==
    /\ IdleParser
    /\ IdleSolver
    /\ IdleShapes
    /\ IdleMap
    /\ IdleCluster
    /\ IdleGlyph
    /\ IdleBackend
    /\ IdleAnalyzers
    /\ stripColors \in {<<"GN">>, <<"GN", "BL">>}
    /\ \E found \in StripInputs :
          /\ stripDigits =
                SelectSeq(found, LAMBDA e : e.type = "digit" /\ e.color = "GN")
                \o (IF Len(stripColors) >= 2
                    THEN SelectSeq(found, LAMBDA e : e.type = "digit" /\ e.color = "BL")
                    ELSE <<>>)
          /\ stripZeros = SelectSeq(found, LAMBDA e : e.type = "zero")
    /\ allElements = <<>>
    /\ groups = <<>>
    /\ ei = 0
    /\ ci = 0
    /\ values = <<>>
    /\ constraints = <<>>
    /\ requests = <<>>
    /\ tpc = "input"

\* parseNumbers runs on from (i, c, vs, cs) in the loops over elements
\* (all) or groups (gs): up to the next await, where it calls
\* recognizeDigit, or to its return
Continue(all, gs, i, c, vs, cs) ==
    /\ UNCHANGED <<stripColors, stripDigits, stripZeros, parserVars>>
    /\ allElements' = all
    /\ groups' = gs
    /\ IF Len(stripColors) >= 2
       THEN \E r \in {RunDual(stripColors, gs, i, c, vs, cs)} :
               /\ ei' = r.g
               /\ ci' = r.c
               /\ values' = r.values
               /\ constraints' = r.constraints
               /\ tpc' = r.pc
       ELSE \E r \in {RunSingle(stripColors[1], all, i, cs)} :
               /\ ei' = r.i
               /\ ci' = 0
               /\ values' = <<>>
               /\ constraints' = r.constraints
               /\ tpc' = r.pc
    /\ requests' = IF tpc' = "awaiting"
                   THEN Append(requests, Request(Awaited'))
                   ELSE requests

\* the call of parseNumbers
ParseNumbers ==
    /\ tpc = "input"
    /\ \E all \in {AllElements(stripColors, stripDigits, stripZeros)} :
          IF Len(all) = 0
          THEN /\ tpc' = "returned"
               /\ UNCHANGED <<stripColors, stripDigits, stripZeros, allElements,
                              groups, ei, ci, values, constraints, requests, parserVars>>
          ELSE IF Len(stripColors) >= 2
          THEN Continue(<<>>, clusterDualDigits(all), 1, 1, <<>>, <<>>)
          ELSE Continue(SortElements(all), <<>>, 1, 0, <<>>, <<>>)
    /\ UNCHANGED <<solverVars, shapeVars, mapVars, clusterVars, glyphVars,
                   backendVars, analyzerVars, parserVars>>

\* the recognition backend resolves a call
RecognitionResolves ==
    /\ \E k \in 1..Len(requests) : \E v \in DigitValues :
          /\ requests[k].state = "pending"
          /\ requests' = [requests EXCEPT ![k].state = "resolved",
                                          ![k].value = v]
    /\ UNCHANGED <<stripColors, stripDigits, stripZeros, allElements, groups,
                   ei, ci, values, constraints, tpc, solverVars, shapeVars,
                   mapVars, clusterVars, glyphVars, backendVars, analyzerVars, parserVars>>

\* parseNumbers resumes with the value of the call it awaited
ResumeParseNumbers ==
    /\ tpc = "awaiting"
    /\ requests[Len(requests)].state = "resolved"
    /\ LET value == requests[Len(requests)].value
       IN  IF Len(stripColors) >= 2
           THEN Continue(allElements, groups, ei, ci + 1,
                         Append(values, ConstraintValue(stripColors[ci], value,
                                                        Awaited.id)),
                         constraints)
           ELSE Continue(allElements, groups, ei + 1, 0, <<>>,
                         Append(constraints,
                                [values |-> <<ConstraintValue(stripColors[1], value,
                                                              Awaited.id)>>]))
    /\ UNCHANGED <<solverVars, shapeVars, mapVars, clusterVars, glyphVars,
                   backendVars, analyzerVars, parserVars>>

NextStrip == ParseNumbers \/ RecognitionResolves \/ ResumeParseNumbers

SpecStrip == InitStrip /\ [][NextStrip]_vars

(***************************************************************************)
(* parseNumbers properties                                                 *)
(***************************************************************************)
\* the recognizeDigit calls the backend has not resolved
Outstanding == {k \in 1..Len(requests) : requests[k].state = "pending"}

\* request j is made before request k in the order of the claim: glyphs
\* left to right in single-color mode; in dual-color mode an earlier
\* cluster, which lies to the left, or the same cluster and an earlier color
InGlyphOrder(j, k) ==
    IF Len(stripColors) >= 2
    THEN \/ /\ requests[j].group < requests[k].group
            /\ requests[j].cx <= requests[k].cx
         \/ /\ requests[j].group = requests[k].group
            /\ requests[j].color < requests[k].color
    ELSE requests[j].cx <= requests[k].cx

\* the value the backend resolved the call for element id to
ResolvedValue(id) ==
    LET k == CHOOSE k \in 1..Len(requests) : requests[k].elem = id
    IN  requests[k].value

\* the constraints parseNumbers returned are those of the elements found,
\* in an order fixed by the elements alone: one per element by centroid
\* (single color), one per cluster with a value per color (dual color),
\* each recognized value being the one resolved for its own element
ConstraintsInGlyphOrder ==
    \E all \in {AllElements(stripColors, stripDigits, stripZeros)} :
        IF Len(stripColors) >= 2
        THEN /\ Len(constraints) = Len(groups)
             /\ \A g \in 1..Len(groups) :
                   /\ Len(constraints[g].values) = 2
                   /\ \A c \in 1..2 :
                         LET v == constraints[g].values[c]
                         IN  /\ v.color = stripColors[c]
                             /\ v.src # 0 =>
                                   /\ \E i \in 1..Len(groups[g]) :
                                         /\ groups[g][i].id = v.src
                                         /\ groups[g][i].color = v.color
                                   /\ v.value = ResolvedValue(v.src)
                             /\ v.src = 0 => v.value = 0
             /\ \A g \in 1..(Len(groups) - 1) :
                   \A i \in 1..Len(groups[g]) : \A j \in 1..Len(groups[g + 1]) :
                       groups[g][i].cx <= groups[g + 1][j].cx
        ELSE /\ Len(constraints) = Len(all)
             /\ {constraints[k].values[1].src : k \in 1..Len(all)} = 1..Len(all)
             /\ \A k \in 1..Len(all) :
                   LET v == constraints[k].values[1]
                   IN  /\ k < Len(all) =>
                             all[v.src].cx <= all[constraints[k + 1].values[1].src].cx
                       /\ v.value = IF all[v.src].type = "zero" THEN 0
                                    ELSE ResolvedValue(v.src)

\* C17: within one parse of a numeric strip the recognizeDigit calls are
\* made one at a time, a call only after the previous one has resolved,
\* and in glyph order (left to right; cluster by cluster, then color by
\* color, in dual-color mode), so the order of the constraints returned is
\* fixed by the glyphs and not by the timing of the recognition.
C17_OneRequestAtATime ==
    /\ Cardinality(Outstanding) <= 1
    /\ \A k \in 1..(Len(requests) - 1) : requests[k].state = "resolved"
    /\ \A j, k \in 1..Len(requests) : j < k => InGlyphOrder(j, k)
    /\ tpc = "returned" => ConstraintsInGlyphOrder

\* a single-color strip whose digits were found right to left: two calls,
\* resolved to different values, the constraints left to right
C17_Witness ==
    /\ tpc = "returned"
    /\ Len(stripColors) = 1
    /\ Len(stripDigits) >= 2
    /\ stripDigits[1].cx > stripDigits[2].cx
    /\ Len(requests) >= 2
    /\ requests[1].value # requests[2].value
    /\ constraints[1].values[1].value = requests[1].value

(***************************************************************************)
(* ConstraintParser.parse (core/constraintParser.ts) and PieceParser.parse *)
(* (core/pieceParser.ts) on images without the expected structure          *)
(*                                                                         *)
(* A pixel is one of a few kinds, given by what rgbToHsv makes of it (h in *)
(* 0..180, s and v in 0..255) and by whether its three channels are all    *)
(* at least 250.  A strip is its size and the number of pixels of each     *)
(* kind, which is all detectColors reads; a panel is a grid of square      *)
(* tiles of one kind each.                                                 *)
(***************************************************************************)
COLOR_RANGES ==
    [GN |-> [hMin |-> 35, sMin |-> 80,  vMin |-> 80,  hMax |-> 85,  sMax |-> 255, vMax |-> 255],
     BL |-> [hMin |-> 95, sMin |-> 80,  vMin |-> 80,  hMax |-> 135, sMax |-> 255, vMax |-> 255],
     CY |-> [hMin |-> 80, sMin |-> 80,  vMin |-> 80,  hMax |-> 100, sMax |-> 255, vMax |-> 255],
     OG |-> [hMin |-> 5,  sMin |-> 120, vMin |-> 120, hMax |-> 25,  sMax |-> 255, vMax |-> 255]]

\* ALL_COLORS, which is also ConstraintParser.COLOR_CODES
COLOR_CODES == <<"GN", "BL", "CY", "OG">>

\* the kinds of pixel: white, dark, pale green (too little saturation for
\* any range), green, a green that is also in the cyan range, cyan, blue,
\* orange
PixelKinds ==
    [W  |-> [h |-> 0,   s |-> 0,   v |-> 255, white |-> TRUE],
     K  |-> [h |-> 0,   s |-> 0,   v |-> 30,  white |-> FALSE],
     PG |-> [h |-> 60,  s |-> 40,  v |-> 200, white |-> FALSE],
     GN |-> [h |-> 60,  s |-> 200, v |-> 200, white |-> FALSE],
     GC |-> [h |-> 82,  s |-> 200, v |-> 200, white |-> FALSE],
     CY |-> [h |-> 90,  s |-> 200, v |-> 200, white |-> FALSE],
     BL |-> [h |-> 120, s |-> 200, v |-> 200, white |-> FALSE],
     OG |-> [h |-> 15,  s |-> 200, v |-> 200, white |-> FALSE]]

KindNames == DOMAIN PixelKinds

\* the test of createColorMask (not relaxed) on one pixel
InRange(kind, code) ==
    LET hsv == PixelKinds[kind]
        rg == COLOR_RANGES[code]
    IN  /\ hsv.h >= rg.hMin /\ hsv.h <= rg.hMax
        /\ hsv.s >= rg.sMin /\ hsv.s <= rg.sMax
        /\ hsv.v >= rg.vMin /\ hsv.v <= rg.vMax

RECURSIVE SumOver(_, _)

\* the sum of f over the finite set S
SumOver(S, f) ==
    IF S = {} THEN 0
    ELSE LET x == CHOOSE x \in S : TRUE
         IN  f[x] + SumOver(S \ {x}, f)

\* countMaskPixels(createColorMask(img, code))
countMaskPixels(img, code) ==
    SumOver({k \in KindNames : InRange(k, code)}, img.count)

\* detectColors: counts after the GN/CY disambiguation by mean hue
ColorCounts(img) ==
    LET counts == [code \in {"GN", "BL", "CY", "OG"} |-> countMaskPixels(img, code)]
        both == {k \in KindNames : InRange(k, "GN") /\ InRange(k, "CY")}
        either == {k \in KindNames : InRange(k, "GN") \/ InRange(k, "CY")}
        overlap == SumOver(both, img.count)
        hueSum == SumOver(either, [k \in KindNames |-> PixelKinds[k].h * img.count[k]])
        hueCount == SumOver(either, img.count)
    IN  IF /\ counts.GN > 0 /\ counts.CY > 0
           /\ 2 * overlap > Min2(counts.GN, counts.CY)
           /\ hueCount > 0
        THEN IF hueSum >= 75 * hueCount
             THEN [counts EXCEPT !.GN = 0]
             ELSE [counts EXCEPT !.CY = 0]
        ELSE counts

\* detectColors: counts[code] / totalPixels > 0.005, in COLOR_ORDER; with
\* no pixel at all the quotient is NaN and the comparison false
detectColors(img) ==
    LET counts == ColorCounts(img)
        totalPixels == img.width * img.height
    IN  SortColors({code \in {"GN", "BL", "CY", "OG"} :
                       /\ totalPixels > 0
                       /\ 1000 * counts[code] > 5 * totalPixels})

\* what parseBars or parseNumbers can return for the colors parsed; what
\* they read from the picture is not part of this model
ConstraintLists(parseColors) ==
    {<<>>}
    \cup {<<[values |-> [i \in 1..Len(parseColors) |->
                            [color |-> parseColors[i], value |-> v,
                             satisfied |-> FALSE]]]>> : v \in {0, 2}}

\* the ConstraintStripResult of the early return of parse
EmptyStripResult ==
    [kind |-> "returned", is_dual_color |-> FALSE, display_mode |-> "number",
     constraints |-> <<>>, colors |-> <<>>]

\* the strips modelled: sizes, and numbers of pixels of a kind
StripSizes == {<<20, 10>>, <<10, 40>>}

StripCounts == {0, 1, 40}

\* the kinds a strip is made of besides the dark background
StripKinds == {"PG", "GN", "GC", "CY", "BL", "OG"}

\* a strip without a pixel, and the strips of the sizes above with every
\* number of pixels of each kind on a dark background; shows is the display
\* mode detectDisplayMode reads from a strip that has a color
Strips ==
    {[kind |-> "strip", width |-> 0, height |-> 0, shows |-> "number",
      count |-> [k \in KindNames |-> 0]]}
    \cup {[kind |-> "strip", width |-> sz[1], height |-> sz[2], shows |-> m,
           count |-> [k \in KindNames |->
                         IF k \in StripKinds THEN n[k]
                         ELSE IF k = "K" THEN sz[1] * sz[2] - SumOver(StripKinds, n)
                         ELSE 0]] :
            sz \in StripSizes, m \in {"bar", "number"},
            n \in {f \in [StripKinds -> StripCounts] :
                      \A z \in StripSizes : SumOver(StripKinds, f) <= z[1] * z[2]}}

InitStripImage ==
    /\ IdleParser
    /\ IdleSolver
    /\ IdleShapes
    /\ IdleMap
    /\ IdleCluster
    /\ IdleGlyph
    /\ IdleBackend
    /\ IdleStrip
    /\ stripImage \in Strips
    /\ stripResult = NotParsed
    /\ panelImage = NoImage
    /\ pieceList = <<>>
    /\ apc = "strip"

\* ConstraintParser.parse, first return: detectMode finds no color
ConstraintParseNoColor ==
    /\ apc = "strip"
    /\ Len(detectColors(stripImage)) = 0
    /\ stripResult' = EmptyStripResult
    /\ apc' = "done"
    /\ UNCHANGED <<stripImage, panelImage, pieceList, solverVars, shapeVars,
                   mapVars, clusterVars, glyphVars, backendVars, stripVars, parserVars>>

\* ConstraintParser.parse, second return: the constraints of parseBars or
\* of parseNumbers for the first color, or the first two in dual-color mode
ConstraintParseColors ==
    /\ apc = "strip"
    /\ LET colors == detectColors(stripImage)
           isDual == Len(colors) >= 2
           parseColors == IF isDual THEN Slice(colors, 0, Min2(2, Len(colors)))
                          ELSE Slice(colors, 0, Min2(1, Len(colors)))
       IN  /\ Len(colors) # 0
           /\ \E cs \in ConstraintLists(parseColors) :
                 stripResult' = [kind |-> "returned", is_dual_color |-> isDual,
                                 display_mode |-> stripImage.shows,
                                 constraints |-> cs, colors |-> parseColors]
    /\ apc' = "done"
    /\ UNCHANGED <<stripImage, panelImage, pieceList, solverVars, shapeVars,
                   mapVars, clusterVars, glyphVars, backendVars, stripVars, parserVars>>

(***************************************************************************)
(* PieceParser.parse.  A panel is [width, height, tile, rows]: width and   *)
(* height in px, rows the kinds of its tiles (tile x tile px each), row by *)
(* row.  Rectangles inside a panel are kept in tiles and turned into px    *)
(* where the code compares them with its thresholds.                       *)
(***************************************************************************)
TileRows(img) == Len(img.rows)

TileCols(img) == IF img.tile = 0 THEN 0 ELSE img.width \div img.tile

\* cropImageData, in tiles: w columns from x and h rows from y
cropImageData(img, x, y, w, h) ==
    [kind |-> "panel", width |-> w * img.tile, height |-> h * img.tile,
     tile |-> img.tile,
     rows |-> [r \in 1..h |-> [c \in 1..w |-> img.rows[y + r][x + c]]]]

\* data[idx] < 250 || data[idx + 1] < 250 || data[idx + 2] < 250
NonWhite(img, r, c) == ~PixelKinds[img.rows[r + 1][c + 1]].white

\* findSegments: the maximal runs of TRUE of a boolean array, as [start, end)
findSegments(mask) ==
    LET starts == {i \in 1..Len(mask) : mask[i] /\ (i = 1 \/ ~mask[i - 1])}
        EndOf(i) == SetMin({j \in (i + 1)..(Len(mask) + 1) :
                               j = Len(mask) + 1 \/ ~mask[j]})
        \* the n-th start from the left
        Nth(n) == CHOOSE i \in starts : Cardinality({j \in starts : j < i}) = n - 1
    IN  [n \in 1..Cardinality(starts) |-> <<Nth(n) - 1, EndOf(Nth(n)) - 1>>]

\* trimWhite: the image cut to its pixels that are not white
trimWhite(img) ==
    TheOne({IF dark = {} THEN img
            ELSE LET minX == SetMin({rc[2] : rc \in dark})
                     maxX == SetMax({rc[2] : rc \in dark})
                     minY == SetMin({rc[1] : rc \in dark})
                     maxY == SetMax({rc[1] : rc \in dark})
                 IN  cropImageData(img, minX, minY, maxX - minX + 1, maxY - minY + 1) :
            dark \in {{rc \in (0..(TileRows(img) - 1)) \X (0..(TileCols(img) - 1)) :
                          NonWhite(img, rc[1], rc[2])}}})

\* the rows of a panel that are not white all along
NonWhiteRows(img) ==
    [r \in 1..TileRows(img) |->
        ~(\A c \in 0..(TileCols(img) - 1) : ~NonWhite(img, r - 1, c))]

\* splitStack: the parts of the panel between rows that are white all along
splitStack(img) ==
    TheOne({IF Len(segments) <= 1 THEN <<>>
            ELSE SelectSeq(
                    [n \in 1..Len(segments) |->
                        TheOne({trimWhite(sub) :
                                sub \in {cropImageData(img, 0, segments[n][1],
                                            TileCols(img),
                                            segments[n][2] - segments[n][1])}})],
                    LAMBDA t : t.width > 0 /\ t.height > 0) :
            segments \in {findSegments(NonWhiteRows(img))}})

\* createColorMask of the piece parser: the tiles in the range of a color
PieceMask(img) ==
    {rc \in (0..(TileRows(img) - 1)) \X (0..(TileCols(img) - 1)) :
        \E i \in 1..Len(COLOR_CODES) : InRange(img.rows[rc[1] + 1][rc[2] + 1], COLOR_CODES[i])}

\* the tiles of a mask inside the rectangle [x1, x2) x [y1, y2)
cropMask(mask, x1, y1, x2, y2) ==
    {rc \in mask : rc[1] >= y1 /\ rc[1] < y2 /\ rc[2] >= x1 /\ rc[2] < x2}

\* detectColor on the tiles of a mask: the color most tiles are in the range
\* of, the later of COLOR_CODES on a tie, and CY for a GN of mean hue >= 75
detectColor(img, mask) ==
    LET counts == [code \in {"GN", "BL", "CY", "OG"} |->
                      Cardinality({rc \in mask :
                          InRange(img.rows[rc[1] + 1][rc[2] + 1], code)})]
        Larger(a, b) == IF counts[a] > counts[b] THEN a ELSE b
        best == Larger(Larger(Larger("GN", "BL"), "CY"), "OG")
        hueSum == SumOver(mask, [rc \in mask |-> PixelKinds[img.rows[rc[1] + 1][rc[2] + 1]].h])
    IN  IF mask = {} THEN "GN"
        ELSE IF best = "GN" /\ counts.CY > 0 /\ hueSum >= 75 * Cardinality(mask)
             THEN "CY"
        ELSE best

\* what discretizeShape can return for a mask: nothing for one without a
\* pixel; else the cells its scoring picks, which may be none.  The scoring
\* is not part of this model.
discretizeShape(mask) ==
    IF mask = {} THEN {<<>>}
    ELSE {<<>>, <<<<0, 0>>>>, <<<<0, 0>>, <<1, 0>>>>}

RECURSIVE Grow(_, _)

\* the flood fill of findContours: the tiles of mask joined to those of
\* part through left, right, upper and lower neighbours
Grow(part, mask) ==
    LET more == {rc \in mask \ part :
                    \E q \in part : \/ q[1] = rc[1] /\ Abs(q[2] - rc[2]) = 1
                                    \/ q[2] = rc[2] /\ Abs(q[1] - rc[1]) = 1}
    IN  IF more = {} THEN part ELSE Grow(part \cup more, mask)

RECURSIVE Components(_, _)

\* the connected parts of a mask, in the order the scan of findContours
\* (row by row, left to right) meets them
Components(mask, cols) ==
    IF mask = {} THEN <<>>
    ELSE LET seed == CHOOSE rc \in mask :
                         \A q \in mask : rc[1] * cols + rc[2] <= q[1] * cols + q[2]
             part == Grow({seed}, mask)
         IN  <<part>> \o Components(mask \ part, cols)

\* findContours: of each connected part the bounding rectangle and the
\* area, in px
findContours(img) ==
    LET parts == Components(PieceMask(img), TileCols(img))
        t == img.tile
    IN  [n \in 1..Len(parts) |->
            LET minX == SetMin({rc[2] : rc \in parts[n]})
                maxX == SetMax({rc[2] : rc \in parts[n]})
                minY == SetMin({rc[1] : rc \in parts[n]})
                maxY == SetMax({rc[1] : rc \in parts[n]})
            IN  [x |-> minX * t, y |-> minY * t, w |-> (maxX - minX + 1) * t,
                 h |-> (maxY - minY + 1) * t,
                 area |-> Cardinality(parts[n]) * t * t]]

\* parseMulti: the boxes [x1, y1, x2, y2] of the contours large enough;
\* Math.floor(area * 0.002) is (2 * area) \div 1000
PieceBoxes(img) ==
    LET contours == findContours(img)
        minArea == Max2(200, (2 * img.width * img.height) \div 1000)
        kept == SelectSeq(contours, LAMBDA cnt :
                    ~(cnt.area < minArea) /\ ~(cnt.w < 20 \/ cnt.h < 20))
    IN  [n \in 1..Len(kept) |->
            <<kept[n].x, kept[n].y, kept[n].x + kept[n].w, kept[n].y + kept[n].h>>]

RECURSIVE SortByY1(_)

\* merged.sort((a, b) => a[1] - b[1]): stable
SortByY1(a) ==
    IF a = <<>> THEN <<>>
    ELSE LET k == CHOOSE k \in 1..Len(a) :
                      /\ \A j \in 1..Len(a) : a[k][2] <= a[j][2]
                      /\ \A j \in 1..(k - 1) : a[j][2] # a[k][2]
         IN  <<a[k]>> \o SortByY1([j \in 1..(Len(a) - 1) |->
                                      IF j < k THEN a[j] ELSE a[j + 1]])

RECURSIVE Linked(_, _, _)

\* the boxes union() joins to those of part, directly or through others
Linked(part, n, joined) ==
    LET more == {j \in (1..n) \ part :
                    \E i \in part : <<i, j>> \in joined \/ <<j, i>> \in joined}
    IN  IF more = {} THEN part ELSE Linked(part \cup more, n, joined)

\* mergeByYOverlap: boxes that overlap in y by more than half the lower of
\* the two and are closer in x than 0.8 of the mean width become one box;
\* xGap < avgW * 0.8 is 10 * n * xGap < 8 * (sum of the widths)
mergeByYOverlap(boxes) ==
    LET n == Len(boxes)
        sumW == SumOver(1..n, [i \in 1..n |-> boxes[i][3] - boxes[i][1]])
        Joined(i, j) ==
            LET yOverlap == Max2(0, Min2(boxes[i][4], boxes[j][4])
                                    - Max2(boxes[i][2], boxes[j][2]))
                h_i == boxes[i][4] - boxes[i][2]
                h_j == boxes[j][4] - boxes[j][2]
                xGap == Max2(0, Max2(boxes[i][1], boxes[j][1])
                                - Min2(boxes[i][3], boxes[j][3]))
            IN  /\ i < j
                /\ 2 * yOverlap > Min2(h_i, h_j)
                /\ 10 * n * xGap < 8 * sumW
        GroupOf(i) == Linked({i}, n, {ij \in (1..n) \X (1..n) : Joined(ij[1], ij[2])})
        firsts == SortInts(SetToSeq({i \in 1..n : i = SetMin(GroupOf(i))}))
        merged == [g \in 1..Len(firsts) |->
                      LET group == GroupOf(firsts[g])
                      IN  <<SetMin({boxes[i][1] : i \in group}),
                            SetMin({boxes[i][2] : i \in group}),
                            SetMax({boxes[i][3] : i \in group}),
                            SetMax({boxes[i][4] : i \in group})>>]
    IN  IF n = 0 THEN <<>> ELSE SortByY1(merged)

\* parseSingle with the cells discretizeShape gave: null without a pixel of
\* a color or without a cell
parseSingle(img, coords) ==
    IF PieceMask(img) = {} THEN null
    ELSE IF Len(coords) > 0
         THEN [color |-> detectColor(img, PieceMask(img)), coords |-> coords]
    ELSE null

\* the tiles of the mask inside box n of parseMulti's merged boxes
RoiMask(img, box) ==
    cropMask(PieceMask(img), box[1] \div img.tile, box[2] \div img.tile,
             box[3] \div img.tile, box[4] \div img.tile)

\* the loop body of parseMulti for one merged box
parseMultiPiece(img, box, coords) ==
    IF Len(coords) > 0
    THEN [color |-> detectColor(img, RoiMask(img, box)), coords |-> coords]
    ELSE null

\* the panels modelled: tiles of 10 or 20 px, up to two tiles wide
TileSizes == {10, 20}

PanelCols == {0, 1, 2}

\* a row of tiles: of one kind all along, or a green-cyan tile and then dark
PanelRowsOf(w) ==
    {[c \in 1..w |-> k] : k \in {"W", "K", "PG", "GN", "OG"}}
    \cup {[c \in 1..w |-> IF c = 1 THEN "GC" ELSE "K"]}

Panels ==
    UNION {{[kind |-> "panel", width |-> w * t, height |-> h * t, tile |-> t,
             rows |-> rows] : rows \in [1..h -> PanelRowsOf(w)]} :
           w \in PanelCols, h \in 0..MaxPanelRows, t \in TileSizes}

InitPanel ==
    /\ IdleParser
    /\ IdleSolver
    /\ IdleShapes
    /\ IdleMap
    /\ IdleCluster
    /\ IdleGlyph
    /\ IdleBackend
    /\ IdleStrip
    /\ stripImage = NoImage
    /\ stripResult = NotParsed
    /\ panelImage \in Panels
    /\ pieceList = <<>>
    /\ apc = "panel"

\* PieceParser.parse, first return: an image without width or height
PieceParseNoSize ==
    /\ apc = "panel"
    /\ panelImage.width = 0 \/ panelImage.height = 0
    /\ pieceList' = <<>>
    /\ apc' = "done"
    /\ UNCHANGED <<stripImage, stripResult, panelImage, solverVars, shapeVars,
                   mapVars, clusterVars, glyphVars, backendVars, stripVars, parserVars>>

\* PieceParser.parse, second return: the pieces parseSingle finds in the
\* stacks
PieceParseStacks ==
    /\ apc = "panel"
    /\ ~(panelImage.width = 0 \/ panelImage.height = 0)
    /\ \E stacks \in {splitStack(panelImage)} :
          /\ Len(stacks) > 0
          /\ \E coords \in [1..Len(stacks) -> discretizeShape({<<0, 0>>})] :
                /\ \A n \in 1..Len(stacks) :
                      coords[n] \in discretizeShape(PieceMask(stacks[n]))
                /\ pieceList' = SelectSeq(
                      [n \in 1..Len(stacks) |-> parseSingle(stacks[n], coords[n])],
                      LAMBDA piece : piece # null)
    /\ apc' = "done"
    /\ UNCHANGED <<stripImage, stripResult, panelImage, solverVars, shapeVars,
                   mapVars, clusterVars, glyphVars, backendVars, stripVars, parserVars>>

\* PieceParser.parse, third return: the pieces of parseMulti
PieceParseMulti ==
    /\ apc = "panel"
    /\ ~(panelImage.width = 0 \/ panelImage.height = 0)
    /\ Len(splitStack(panelImage)) = 0
    /\ \E merged \in {mergeByYOverlap(PieceBoxes(panelImage))} :
           \E coords \in [1..Len(merged) -> discretizeShape({<<0, 0>>})] :
              /\ \A n \in 1..Len(merged) :
                    coords[n] \in discretizeShape(RoiMask(panelImage, merged[n]))
              /\ pieceList' = SelectSeq(
                    [n \in 1..Len(merged) |->
                        parseMultiPiece(panelImage, merged[n], coords[n])],
                    LAMBDA piece : piece # null)
    /\ apc' = "done"
    /\ UNCHANGED <<stripImage, stripResult, panelImage, solverVars, shapeVars,
                   mapVars, clusterVars, glyphVars, backendVars, stripVars, parserVars>>

\* the three analyzers, each on an input of its own
InitAnalyzers == InitMap \/ InitStripImage \/ InitPanel

NextAnalyzers ==
    \/ NextMap
    \/ ConstraintParseNoColor
    \/ ConstraintParseColors
    \/ PieceParseNoSize
    \/ PieceParseStacks
    \/ PieceParseMulti

SpecAnalyzers == InitAnalyzers /\ [][NextAnalyzers]_vars

\* no pixel of the strip is in the range of a color
NoColorInStrip ==
    \A k \in KindNames :
        stripImage.count[k] > 0 =>
            \A i \in 1..Len(COLOR_CODES) : ~InRange(k, COLOR_CODES[i])

\* the panel has no width or no height, or no pixel in the range of a color
ZeroSizeOrColorless ==
    \/ panelImage.width = 0
    \/ panelImage.height = 0
    \/ PieceMask(panelImage) = {}

\* there is no grid box, or no detection has its center in it
NoBoxOrNoDetectionInside ==
    \/ gridBbox = null
    \/ \A i \in 1..Len(cellDetections) : ~InBox(cellDetections[i], gridBbox)

\* C19: an analyzer given an input without the expected structure returns,
\* and returns its empty result: ConstraintParser.parse on a strip without a
\* pixel of a color returns no constraint and no color; PieceParser.parse on
\* a panel of no size or without a pixel of a color returns no piece;
\* MapParser.parse without a grid box, or without a detection centered in
\* it, returns a grid of 0 rows and 0 columns with an empty map.
C19_EmptyResults ==
    /\ (stripImage.kind = "strip" /\ NoColorInStrip) =>
          /\ apc = "strip" => ENABLED ConstraintParseNoColor
          /\ apc = "done" => /\ stripResult.kind = "returned"
                             /\ stripResult.constraints = <<>>
                             /\ stripResult.colors = <<>>
    /\ (panelImage.kind = "panel" /\ ZeroSizeOrColorless) =>
          /\ apc = "panel" => ENABLED (PieceParseNoSize \/ PieceParseStacks
                                       \/ PieceParseMulti)
          /\ apc = "done" => pieceList = <<>>
    /\ (mpc \in {"parse", "done"} /\ NoBoxOrNoDetectionInside) =>
          /\ mpc = "parse" => ENABLED (ParseNoBox \/ ParseNoGrid)
          /\ mpc = "done" => /\ mapResult.num_row = 0
                             /\ mapResult.num_col = 0
                             /\ mapResult.map = <<>>

\* a panel of dark and pale parts between white rows, which parse splits
\* into stacks, has been parsed
C19_Witness ==
    /\ apc = "done"
    /\ panelImage.kind = "panel"
    /\ PieceMask(panelImage) = {}
    /\ Len(splitStack(panelImage)) > 1
    /\ pieceList = <<>>

\* MapParser.detectColor on the tiles of a region: the color most tiles are
\* in the range of, the later of COLOR_CODES on a tie; between GN and CY the
\* mean of the hues pushed to gnCyPixels, once per range a tile is in
MapDetectColor(img, region) ==
    LET counts == [code \in {"GN", "BL", "CY", "OG"} |->
                      Cardinality({rc \in region :
                          InRange(img.rows[rc[1] + 1][rc[2] + 1], code)})]
        Larger(a, b) == IF counts[a] > counts[b] THEN a ELSE b
        best == Larger(Larger(Larger("GN", "BL"), "CY"), "OG")
        pushes == [rc \in region |->
                      Cardinality({code \in {"GN", "CY"} :
                          InRange(img.rows[rc[1] + 1][rc[2] + 1], code)})]
        hueSum == SumOver(region, [rc \in region |->
                      pushes[rc] * PixelKinds[img.rows[rc[1] + 1][rc[2] + 1]].h])
        hueCount == SumOver(region, pushes)
    IN  IF best \in {"GN", "CY"} /\ counts.GN > 0 /\ counts.CY > 0 /\ hueCount > 0
        THEN (IF hueSum >= 75 * hueCount THEN "CY" ELSE "GN")
        ELSE best

\* the regions PieceParser.parse hands to detectColor: the stacks, or the
\* merged boxes of parseMulti
PieceRegions(img) ==
    LET stacks == splitStack(img)
        merged == mergeByYOverlap(PieceBoxes(img))
    IN  IF Len(stacks) > 0
        THEN [n \in 1..Len(stacks) |->
                 [img |-> stacks[n], mask |-> PieceMask(stacks[n])]]
        ELSE [n \in 1..Len(merged) |->
                 [img |-> img, mask |-> RoiMask(img, merged[n])]]

\* C23: the piece analyzer resolves the dominant color as the grid analyzer
\* does: the color of every piece parsed is the color MapParser.detectColor
\* gives for the same pixels (CY or GN by the mean hue of the GN/CY pixels
\* against 75 when both ranges match and one of them leads, the largest
\* count otherwise).
C23_SameHueSplit ==
    (apc = "done" /\ panelImage.kind = "panel"
        /\ panelImage.width > 0 /\ panelImage.height > 0) =>
        \E regions \in {PieceRegions(panelImage)} :
            Len(pieceList) = Len(regions) =>
                \A n \in 1..Len(regions) :
                    pieceList[n].color =
                        MapDetectColor(regions[n].img, regions[n].mask)

(***************************************************************************)
(* ConstraintParser.parse, several calls on one instance                   *)
(* (core/constraintParser.ts).  A strip is [width, height, blobs]; a blob  *)
(* is a solid rectangle [x, y, w, h, px, ring, area, border] of pixels of  *)
(* kind px on a dark background, ring telling the faint ring of a zero     *)
(* symbol.  Blobs do not touch, so findContours finds one contour per blob *)
(* of a mask.  A call runs from its start, or from the resolution of the   *)
(* recognizeDigit call it awaits, to its next await or to its return in    *)
(* one step; calls interleave at the awaits.  The strips with digits have  *)
(* one color.                                                              *)
(***************************************************************************)
MaxParses == 2

Blob(x, y, w, h, px) ==
    [x |-> x, y |-> y, w |-> w, h |-> h, px |-> px, ring |-> FALSE,
     area |-> w * h, border |-> 2 * (w + h) - 4]

\* the ring of a zero symbol: d x d px, area and border pixels of the ring
RingBlob(x, y, d, area, border) ==
    [x |-> x, y |-> y, w |-> d, h |-> d, px |-> "W", ring |-> TRUE,
     area |-> area, border |-> border]

\* the numbers of pixels of each kind in a strip
Histogram(img) ==
    [k \in KindNames |->
        IF k = "K"
        THEN img.width * img.height
             - SumOver(img.blobs, [b \in img.blobs |-> b.area])
        ELSE SumOver({b \in img.blobs : b.px = k}, [b \in img.blobs |-> b.area])]

\* rotateImage: (x, y) -> (y, width - 1 - x)
rotateImage(img) ==
    [width |-> img.height, height |-> img.width,
     blobs |-> {[b EXCEPT !.x = b.y, !.y = img.width - b.x - b.w,
                          !.w = b.h, !.h = b.w] : b \in img.blobs}]

\* createColorMask, relaxed, on one pixel
InRangeRelaxed(kind, code) ==
    LET hsv == PixelKinds[kind]
        rg == COLOR_RANGES[code]
    IN  /\ hsv.h >= rg.hMin /\ hsv.h <= rg.hMax
        /\ hsv.s >= Max2(0, rg.sMin - 40) /\ hsv.s <= rg.sMax
        /\ hsv.v >= Max2(0, rg.vMin - 60) /\ hsv.v <= rg.vMax

\* createColorMask: the blobs in the mask
createColorMask(img, code, relaxed) ==
    {b \in img.blobs : IF relaxed THEN InRangeRelaxed(b.px, code)
                       ELSE InRange(b.px, code)}

RECURSIVE ScanOrder(_, _)

\* findContours meets the blobs by their first pixel, row by row
ScanOrder(S, width) ==
    IF S = {} THEN <<>>
    ELSE LET b == CHOOSE b \in S :
                      \A o \in S : b.y * width + b.x <= o.y * width + o.x
         IN  <<b>> \o ScanOrder(S \ {b}, width)

\* findContours of constraintParser.ts on a mask of blobs
findStripContours(mask, width) ==
    LET order == ScanOrder(mask, width)
    IN  [i \in 1..Len(order) |->
            [x |-> order[i].x, y |-> order[i].y, w |-> order[i].w,
             h |-> order[i].h, cx |-> order[i].x + order[i].w \div 2,
             cy |-> order[i].y + order[i].h \div 2, area |-> order[i].area,
             border |-> order[i].border]]

\* createCombinedMask
createCombinedMask(img, colors) ==
    UNION {createColorMask(img, colors[i], FALSE) : i \in 1..Len(colors)}

\* detectDisplayMode: aspect > 2.5 || aspect < 0.35 counts as a bar;
\* 'bar' if barCount > total * 0.6
detectDisplayMode(img, colors) ==
    LET contours == findStripContours(createCombinedMask(img, colors), img.width)
        counted == SelectSeq(contours, LAMBDA cnt : cnt.area >= 50)
        barLike == SelectSeq(counted, LAMBDA cnt :
                       \/ 10 * cnt.w > 25 * cnt.h
                       \/ 100 * cnt.w < 35 * cnt.h)
    IN  IF Len(colors) = 0 \/ Len(contours) = 0 THEN "number"
        ELSE IF Len(counted) > 0 /\ 10 * Len(barLike) > 6 * Len(counted)
        THEN "bar"
        ELSE "number"

isValidBar(area, w, h, imgW, imgH) ==
    /\ ~(area < 50)
    /\ (10 * w > 12 * h \/ 10 * w < 8 * h)
    /\ ~(w > 15 * h /\ 100 * w > 15 * imgW)
    /\ ~(100 * w < 7 * h /\ 100 * h > 15 * imgH)

RECURSIVE extractBars(_, _)

\* extractBars: color by color, contour by contour
extractBars(img, colors) ==
    IF colors = <<>> THEN <<>>
    ELSE LET contours == findStripContours(createColorMask(img, Head(colors), FALSE),
                                           img.width)
             valid == SelectSeq(contours, LAMBDA cnt :
                          isValidBar(cnt.area, cnt.w, cnt.h, img.width, img.height))
         IN  [i \in 1..Len(valid) |->
                 [x |-> valid[i].x, y |-> valid[i].y, w |-> valid[i].w,
                  h |-> valid[i].h, cx |-> valid[i].cx, cy |-> valid[i].cy,
                  area |-> valid[i].area, color |-> Head(colors), type |-> "bar"]]
             \o extractBars(img, Tail(colors))

\* detectZeroSymbols: the adaptive threshold flags the rings;
\* filterZeroCandidates keeps those of the size, the aspect and the
\* circularity 4 * PI * area / perimeter^2 (PI as 355 / 113) of a zero
\* symbol; a ring overlaps no color
detectZeroSymbols(img) ==
    LET contours == findStripContours({b \in img.blobs : b.ring}, img.width)
        zeros == SelectSeq(contours, LAMBDA cnt :
                     /\ ~(cnt.area < 100)
                     /\ ~(10 * cnt.w < 6 * cnt.h \/ 10 * cnt.w > 15 * cnt.h)
                     /\ ~(10 * Max2(cnt.w, cnt.h) < img.height)
                     /\ (cnt.border > 0 =>
                           /\ ~(40 * 355 * cnt.area < 113 * cnt.border * cnt.border)
                           /\ ~(40 * 355 * cnt.area > 9 * 113 * cnt.border * cnt.border)))
    IN  [i \in 1..Len(zeros) |->
            [x |-> zeros[i].x, y |-> zeros[i].y, w |-> zeros[i].w,
             h |-> zeros[i].h, cx |-> zeros[i].cx, cy |-> zeros[i].cy,
             area |-> zeros[i].area, color |-> "none", type |-> "zero"]]

\* extractDigitsSingle.findDigits, rotated being this.wasRotated
findDigits(img, mask, rotated) ==
    LET contours == findStripContours(mask, img.width)
        kept == SelectSeq(contours, LAMBDA cnt :
                    LET maxDim == Max2(cnt.w, cnt.h)
                    IN  /\ ~(cnt.area < 100)
                        /\ ~(maxDim > 3 * Min2(cnt.w, cnt.h))
                        /\ ~(100 * maxDim < 15 * img.height)
                        /\ ~(100 * cnt.y < 5 * img.height /\ 2 * cnt.h < img.height)
                        /\ ~(~rotated /\ 2 * cnt.cy < img.height)
                        /\ ~(rotated /\ 2 * cnt.cy > img.height))
    IN  [i \in 1..Len(kept) |->
            [x |-> kept[i].x, y |-> kept[i].y, w |-> kept[i].w,
             h |-> kept[i].h, cx |-> kept[i].cx, cy |-> kept[i].cy,
             area |-> kept[i].area, color |-> "none", type |-> "digit"]]

\* extractDigitsSingle: the strict mask, the relaxed one if it has no digit
extractDigitsSingle(img, color, rotated) ==
    LET strict == findDigits(img, createColorMask(img, color, FALSE), rotated)
    IN  IF Len(strict) = 0
        THEN findDigits(img, createColorMask(img, color, TRUE), rotated)
        ELSE strict

ConstraintOf(color, value) ==
    [values |-> <<[color |-> color, value |-> value, satisfied |-> FALSE]>>]

\* parseBars from the bars and the zeros it extracted
parseBarGroups(bars, zeros, colors) ==
    LET bgroups == clusterByX(bars \o zeros)
    IN  [g \in 1..Len(bgroups) |->
            LET hasZero == \E e \in 1..Len(bgroups[g]) : bgroups[g][e].type = "zero"
                barsOf(color) ==
                    Len(SelectSeq(bgroups[g], LAMBDA e :
                            e.type = "bar" /\ e.color = color))
                barCount == Len(SelectSeq(bgroups[g], LAMBDA e : e.type = "bar"))
            IN  IF Len(colors) >= 2
                THEN [values |-> [c \in 1..2 |->
                         [color |-> colors[c],
                          value |-> IF hasZero THEN 0 ELSE barsOf(colors[c]),
                          satisfied |-> FALSE]]]
                ELSE ConstraintOf(colors[1], IF hasZero THEN 0 ELSE barCount)]

RECURSIVE RunElements(_, _, _, _)

\* the loop of parseNumbers over allElements from element k on, up to the
\* digit it awaits next or to the end
RunElements(all, k, cs, color) ==
    IF k > Len(all) THEN [k |-> k, cs |-> cs]
    ELSE IF all[k].type = "zero"
    THEN RunElements(all, k + 1, Append(cs, ConstraintOf(color, 0)), color)
    ELSE [k |-> k, cs |-> cs]

\* height > width * 1.5
IsVertical(strip) == 10 * strip.height > 15 * strip.width

\* a parse that leaves the strip as it came
ParsedImageAsGiven(strip) == strip

\* img after the auto-rotation of parse
ParsedImage(strip) ==
    IF IsVertical(strip) THEN rotateImage(strip) ELSE strip

\* the colors detectMode finds in the strip given to parse
ModeColors(strip) ==
    detectColors([width |-> strip.width, height |-> strip.height,
                  count |-> Histogram(strip)])

\* colors.slice(0, 2) or colors.slice(0, 1)
ParseColors(colors) ==
    IF Len(colors) >= 2 THEN Slice(colors, 0, Min2(2, Len(colors)))
    ELSE Slice(colors, 0, Min2(1, Len(colors)))

\* the strips the calls are made with: 40 x 100 px (rotated by parse) and
\* 100 x 40 px
BlobStrips ==
    {[width |-> 40, height |-> 100,
      blobs |-> {Blob(20, 10, 14, 20, "BL"), Blob(20, 60, 14, 20, "BL")}],
     [width |-> 40, height |-> 100, blobs |-> {Blob(12, 20, 18, 50, "BL")}],
     [width |-> 40, height |-> 100,
      blobs |-> {Blob(5, 10, 30, 4, "BL"), Blob(5, 20, 30, 4, "BL"),
                 Blob(5, 70, 30, 4, "BL")}],
     [width |-> 40, height |-> 100,
      blobs |-> {Blob(20, 10, 14, 20, "BL"), RingBlob(4, 60, 16, 120, 60)}],
     [width |-> 100, height |-> 40,
      blobs |-> {Blob(10, 16, 14, 20, "BL"), Blob(60, 16, 14, 20, "BL")}],
     [width |-> 100, height |-> 40,
      blobs |-> {Blob(10, 5, 4, 30, "OG"), Blob(20, 5, 4, 30, "OG"),
                 Blob(70, 5, 4, 30, "OG")}],
     [width |-> 100, height |-> 40,
      blobs |-> {Blob(10, 5, 4, 30, "BL"), Blob(20, 5, 4, 30, "OG"),
                 Blob(70, 5, 4, 30, "OG")}],
     [width |-> 100, height |-> 40, blobs |-> {}]}

\* the digits recognizeDigit resolves to
DigitAnswers == {1, 7}

\* a call of parse that has not run yet
NewCall(strip) ==
    [strip |-> strip, cpc |-> "new", mode |-> "none", colors |-> <<>>,
     zeros |-> <<>>, found |-> <<>>, elements |-> <<>>, k |-> 0,
     constraints |-> <<>>, requests |-> <<>>, out |-> NotParsed]

InitParse ==
    /\ IdleSolver
    /\ IdleShapes
    /\ IdleMap
    /\ IdleCluster
    /\ IdleGlyph
    /\ IdleBackend
    /\ IdleStrip
    /\ IdleAnalyzers
    /\ wasRotated = FALSE
    /\ \E n \in 1..MaxParses :
          parseCalls \in [1..n -> {NewCall(strip) : strip \in BlobStrips}]

\* parse, first return: detectMode finds no color
ParseNoColor(i) ==
    /\ parseCalls[i].cpc = "new"
    /\ Len(ModeColors(parseCalls[i].strip)) = 0
    /\ parseCalls' = [parseCalls EXCEPT
                        ![i].cpc = "returned",
                        ![i].mode = detectDisplayMode(parseCalls[i].strip, <<>>),
                        ![i].out = EmptyStripResult]
    /\ UNCHANGED <<wasRotated, solverVars, shapeVars, mapVars, clusterVars,
                   glyphVars, backendVars, stripVars, analyzerVars>>

\* parse in bar mode: parseBars has no await, the call returns
ParseBarMode(i) ==
    /\ parseCalls[i].cpc = "new"
    /\ LET strip == parseCalls[i].strip
           colors == ModeColors(strip)
           mode == detectDisplayMode(strip, colors)
           img == ParsedImage(strip)
           parseColors == ParseColors(colors)
           bars == extractBars(img, parseColors)
           zeros == detectZeroSymbols(img)
           cs == IF Len(bars) + Len(zeros) = 0 THEN <<>>
                 ELSE parseBarGroups(bars, zeros, parseColors)
       IN  /\ Len(colors) # 0
           /\ mode = "bar"
           /\ wasRotated' = IsVertical(strip)
           /\ parseCalls' = [parseCalls EXCEPT
                 ![i].cpc = "returned", ![i].mode = mode,
                 ![i].colors = parseColors, ![i].zeros = zeros,
                 ![i].found = bars, ![i].constraints = cs,
                 ![i].out = [kind |-> "returned", is_dual_color |-> Len(colors) >= 2,
                             display_mode |-> mode, constraints |-> cs,
                             colors |-> parseColors]]
    /\ UNCHANGED <<solverVars, shapeVars, mapVars, clusterVars,
                   glyphVars, backendVars, stripVars, analyzerVars>>

\* call i is at elements[k]: it returns if the loop is over, and calls
\* recognizeDigitFromMask, which reads this.wasRotated, if not
AwaitOrReturn(i, call, flag) ==
    IF call.k > Len(call.elements)
    THEN parseCalls' = [parseCalls EXCEPT ![i] =
             [call EXCEPT !.cpc = "returned",
                          !.out = [kind |-> "returned", is_dual_color |-> FALSE,
                                   display_mode |-> call.mode,
                                   constraints |-> call.constraints,
                                   colors |-> call.colors]]]
    ELSE parseCalls' = [parseCalls EXCEPT ![i] =
             [call EXCEPT !.cpc = "awaiting",
                          !.requests = Append(call.requests,
                              [w |-> call.elements[call.k].w,
                               h |-> call.elements[call.k].h,
                               rotated |-> flag])]]

\* parse in number mode, one color: parseNumbers up to its first await or,
\* without a digit, to the return
ParseNumberMode(i) ==
    /\ parseCalls[i].cpc = "new"
    /\ LET strip == parseCalls[i].strip
           colors == ModeColors(strip)
           mode == detectDisplayMode(strip, colors)
           img == ParsedImage(strip)
           parseColors == ParseColors(colors)
           zeros == detectZeroSymbols(img)
           digits == extractDigitsSingle(img, parseColors[1], IsVertical(strip))
           all == SortByCx(digits \o zeros)
           run == RunElements(all, 1, <<>>, parseColors[1])
       IN  /\ Len(colors) = 1
           /\ mode = "number"
           /\ wasRotated' = IsVertical(strip)
           /\ AwaitOrReturn(i, [parseCalls[i] EXCEPT
                                   !.mode = mode, !.colors = parseColors,
                                   !.zeros = zeros, !.found = digits,
                                   !.elements = all, !.k = run.k,
                                   !.constraints = run.cs],
                            IsVertical(strip))
    /\ UNCHANGED <<solverVars, shapeVars, mapVars, clusterVars,
                   glyphVars, backendVars, stripVars, analyzerVars>>

\* the recognizeDigit call that call i awaits resolves to value: the loop
\* goes on to the next digit or to the return
Recognized(i, value) ==
    /\ parseCalls[i].cpc = "awaiting"
    /\ LET call == parseCalls[i]
           run == RunElements(call.elements, call.k + 1,
                              Append(call.constraints,
                                     ConstraintOf(call.colors[1], value)),
                              call.colors[1])
       IN  AwaitOrReturn(i, [call EXCEPT !.k = run.k, !.constraints = run.cs],
                         wasRotated)
    /\ UNCHANGED <<wasRotated, solverVars, shapeVars, mapVars, clusterVars,
                   glyphVars, backendVars, stripVars, analyzerVars>>

NextParse ==
    \/ \E i \in 1..Len(parseCalls) : ParseNoColor(i)
    \/ \E i \in 1..Len(parseCalls) : ParseBarMode(i)
    \/ \E i \in 1..Len(parseCalls) : ParseNumberMode(i)
    \/ \E i \in 1..Len(parseCalls), value \in DigitAnswers : Recognized(i, value)

SpecParse == InitParse /\ [][NextParse]_vars

\* call i has gone through detectMode and found a color
Analyzed(i) == parseCalls[i].cpc # "new" /\ parseCalls[i].colors # <<>>

\* what call i extracted is what its mode extracts from img
ExtractedFrom(i, img) ==
    /\ parseCalls[i].zeros = detectZeroSymbols(img)
    /\ parseCalls[i].found =
          IF parseCalls[i].mode = "bar"
          THEN extractBars(img, parseCalls[i].colors)
          ELSE extractDigitsSingle(img, parseCalls[i].colors[1],
                                   IsVertical(parseCalls[i].strip))

\* C22 as stated: for a strip with height > 1.5 x width the rotation comes
\* before all further analysis: the display mode, the zero symbols and the
\* bars or digits of the call are those of the rotated image.
C22_AllAnalysisOnRotated ==
    \A i \in 1..Len(parseCalls) :
        (Analyzed(i) /\ IsVertical(parseCalls[i].strip)) =>
            /\ parseCalls[i].mode =
                  detectDisplayMode(rotateImage(parseCalls[i].strip),
                                    ModeColors(parseCalls[i].strip))
            /\ ExtractedFrom(i, rotateImage(parseCalls[i].strip))

\* C22 amended: the colors and the display mode are detected on the strip
\* as given, before the rotation; for a strip with height > 1.5 x width the
\* zero symbols and the bars or digits are those of the rotated image, and
\* for any other strip those of the strip as given.  The mode returned is
\* the one detected.
C22_RotatedAfterModeDetection ==
    \A i \in 1..Len(parseCalls) :
        Analyzed(i) =>
            /\ parseCalls[i].mode =
                  detectDisplayMode(parseCalls[i].strip,
                                    ModeColors(parseCalls[i].strip))
            /\ ExtractedFrom(i, IF IsVertical(parseCalls[i].strip)
                                THEN rotateImage(parseCalls[i].strip)
                                ELSE parseCalls[i].strip)
            /\ parseCalls[i].cpc = "returned" =>
                  parseCalls[i].out.display_mode = parseCalls[i].mode

\* a vertical strip whose blob is a bar only once rotated has been parsed
\* in number mode, its digit found in the rotated image
C22_Witness ==
    \E i \in 1..Len(parseCalls) :
        /\ parseCalls[i].cpc = "returned"
        /\ IsVertical(parseCalls[i].strip)
        /\ parseCalls[i].out.display_mode = "number"
        /\ detectDisplayMode(rotateImage(parseCalls[i].strip),
                             parseCalls[i].colors) = "bar"
        /\ Len(parseCalls[i].found) = 1
        /\ parseCalls[i].found # extractDigitsSingle(parseCalls[i].strip,
                                                     parseCalls[i].colors[1], TRUE)

\* C25: every recognizeDigit request of a parse call carries the
\* orientation decided for that call's own strip, whatever other calls on
\* the instance do while it is suspended.
C25_OwnOrientation ==
    \A i \in 1..Len(parseCalls) :
        \A r \in 1..Len(parseCalls[i].requests) :
            parseCalls[i].requests[r].rotated = IsVertical(parseCalls[i].strip)

(***************************************************************************)
(* From the analyzers to the solver: ImageProcessor.process and            *)
(* parseConstraints (core/imageProcessor.ts), App.handleSolve, and         *)
(* solvePuzzle on the PuzzleData of metadataToPuzzleData.  The strips are  *)
(* taken as ConstraintParser.parse returns them, whatever the grid is.     *)
(***************************************************************************)
\* what ConstraintParser.parse returned for a strip: no color (which
\* gives the items of a picture without a strip box), or GN with a
\* constraint per line it found
StripResults ==
    {[constraints |-> <<>>, colors |-> <<>>]}
    \cup {[constraints |-> [k \in 1..Len(vs) |-> ConstraintOf("GN", vs[k])],
           colors |-> <<"GN">>] :
            vs \in {<<>>, <<1>>, <<4, 1>>, <<1, 1, 1, 1>>}}

RECURSIVE ItemsOf(_, _, _)

\* the first loop of parseConstraints: an item per value of
\* result.constraints[idx], idx from `from` up to `to`
ItemsOf(cs, from, to) ==
    IF from >= to THEN <<>>
    ELSE [v \in 1..Len(cs[from + 1].values) |->
             [index |-> from, color |-> cs[from + 1].values[v].color,
              value |-> cs[from + 1].values[v].value]]
         \o ItemsOf(cs, from + 1, to)

RECURSIVE ZeroItems(_, _, _)

\* the second loop of parseConstraints: a zero per color for the lines the
\* strip did not show
ZeroItems(colors, from, to) ==
    IF from >= to THEN <<>>
    ELSE [c \in 1..Len(colors) |-> [index |-> from, color |-> colors[c], value |-> 0]]
         \o ZeroItems(colors, from + 1, to)

\* ImageProcessor.parseConstraints on the result of parse for the strip
parseConstraints(res, count) ==
    IF count = 0 THEN [constraints |-> <<>>, colors |-> <<>>]
    ELSE [constraints |->
              ItemsOf(res.constraints, 0, Min2(Len(res.constraints), count))
              \o (IF Len(res.constraints) < count /\ Len(res.colors) > 0
                  THEN ZeroItems(res.colors, Len(res.constraints), count)
                  ELSE <<>>),
          colors |-> res.colors]

\* the colors of ImageProcessor.process
processColors(rowColors, colColors, m, ps) ==
    LET mapColors == SortColors({m[rc] : rc \in DOMAIN m} \ {"empty", "blocked"})
        colors == IF Len(rowColors) > 0 THEN rowColors
                  ELSE IF Len(colColors) > 0 THEN colColors ELSE mapColors
    IN  IF Len(colors) = 0 THEN SortColors({ps[i].color : i \in 1..Len(ps)})
        ELSE colors

\* the grids MapParser.parse returns here: 2 x 3, and 0 x 0 for a picture
\* without a grid
PipelineSizes == GridSizes \cup {<<0, 0>>}

\* the PuzzleMetadata of ImageProcessor.process, and the one handleSolve
\* builds from the editor state that the upload has filled
PipelineMetadata(by, sz, m, rowRes, colRes, ps) ==
    LET rowParsed == parseConstraints(rowRes, sz[1])
        colParsed == parseConstraints(colRes, sz[2])
    IN  [num_row |-> sz[1], num_col |-> sz[2],
         colors |-> IF by = "handleSolve"
                    THEN HandleSolveColors(sz, rowParsed.constraints,
                                           colParsed.constraints, m, ps)
                    ELSE processColors(rowParsed.colors, colParsed.colors, m, ps),
         map |-> m,
         row_constraints |-> rowParsed.constraints,
         col_constraints |-> colParsed.constraints,
         puzzles |-> ps]

InitPipeline ==
    /\ IdleShapes
    /\ IdleMap
    /\ IdleCluster
    /\ IdleDigit
    /\ \E by \in Callers, sz \in PipelineSizes,
          ps \in {ps \in PieceLists : Len(ps) <= 1} :
        \E m \in InputMaps(sz), rowRes \in StripResults, colRes \in StripResults :
          \E md \in {PipelineMetadata(by, sz, m, rowRes, colRes, ps)} :
            \E pd \in {metadataToPuzzleData(md)} :
              /\ puzzleData =
                    [pd EXCEPT !.grid = [r \in 1..md.num_row |->
                        [c \in 1..md.num_col |-> (r - 1) * md.num_col + c]]]
              /\ heap = [o \in 1..(md.num_row * md.num_col) |->
                            pd.grid[((o - 1) \div md.num_col) + 1]
                                   [((o - 1) % md.num_col) + 1]]
              /\ input0 = pd
              /\ pieceRotations = <<>>
              /\ workingGrid = <<>>
              /\ placements = <<>>
              /\ stack = <<>>
              /\ pc = "start"
              /\ ret = FALSE
              /\ result = NotReturned
              /\ solved = <<>>

\* checkConstraints on a grid without a row: grid[0] is undefined and
\* grid[0].length raises a TypeError, which nothing in solvePuzzle catches
CheckAllThrows ==
    /\ pc = "loop"
    /\ Top.idx >= Len(puzzleData.pieces)
    /\ Len(workingGrid) = 0
    /\ pc' = "thrown"
    /\ UNCHANGED <<puzzleData, solved, heap, input0, pieceRotations, workingGrid,
                   placements, stack, ret, result, shapeVars, mapVars,
                   clusterVars, digitVars>>

NextPipeline == Next \/ CheckAllThrows

SpecPipeline == InitPipeline /\ [][NextPipeline]_vars

\* C24: in every PuzzleData handed to the solver every row constraint
\* value is at most the number of columns and every column constraint value
\* at most the number of rows.
C24_ValuesWithinGrid ==
    /\ \A r \in 1..Len(input0.rowConstraints) :
          \A cc \in DOMAIN input0.rowConstraints[r] :
              input0.rowConstraints[r][cc] <= input0.gridSize.cols
    /\ \A c \in 1..Len(input0.colConstraints) :
          \A cc \in DOMAIN input0.colConstraints[c] :
              input0.colConstraints[c][cc] <= input0.gridSize.rows

\* C29: the colors of the PuzzleData that comes from the metadata of
\* ImageProcessor.process hold the color of every piece and of every
\* colored cell of the map.
C29_ColorsClosed ==
    LET colorsOf == {input0.colors[i] : i \in 1..Len(input0.colors)}
    IN  /\ \A i \in 1..Len(input0.pieces) : input0.pieces[i].color \in colorsOf
        /\ \A r \in 1..Len(input0.grid) : \A c \in 1..Len(input0.grid[r]) :
              input0.grid[r][c].type \in ColorCode =>
                  input0.grid[r][c].type \in colorsOf

\* C30: solvePuzzle never throws, whatever PuzzleData the pipeline hands
\* it, a grid without rows included.
C30_NeverThrows == pc # "thrown"

====
